---- MODULE Spec2Model ----
(***************************************************************************)
(* Model of the ranking crawler, src/backend/lib/crawlers/ranking.js:      *)
(* the scheduler cycle of start (one invocation = one pipeline run, re-    *)
(* armed with setTimeout), the SQL tables total and ranking it writes,     *)
(* and the scoring functions it applies to the chain snapshot.            *)
(*                                                                         *)
(* Three specifications:                                                   *)
(*   Spec       the scheduler and the pipeline run, step by step;          *)
(*   SpecScore  the scoring of one validator as a pure function;           *)
(*   SpecRank   the sort and rank assignment as a pure function.           *)
(***************************************************************************)
EXTENDS Integers, Sequences, FiniteSets, TLC

(***************************************************************************)
(* Bounds of the model.                                                    *)
(***************************************************************************)
\* invocations of start the scheduler performs
MaxRuns == 2
\* largest best-block number the chain reports
MaxHeight == 2
\* eras in the history window of the scoring specification
MaxEras == 3
\* SQL statements that fail over the whole behaviour
MaxSqlFailures == 1
\* length of the list handed to the sort in SpecRank
MaxRankLen == 4
\* distinct totalRating values in SpecRank are 0..MaxRankRating
MaxRankRating == 2

(***************************************************************************)
(* Program constants.                                                      *)
(***************************************************************************)
\* ranking.js:501 commission is parts-per-billion / 10000000 (percent)
CommissionUnit == 10000000
\* config.js:9 erasPerDay
ErasPerDay == 4
\* config.js:7 tokenDecimals
TokenDecimals == 12

(***************************************************************************)
(* JavaScript values.                                                      *)
(***************************************************************************)
\* undefined / null, where the defined values are strings
Undefined == "undefined"
\* undefined, NaN and Infinity, where the defined values are numbers (which
\* are never negative in this program)
Infinity == 0 - 3
UndefinedNumber == 0 - 2
NaN == 0 - 1
\* validator.exposure when the chain returned none (undefined, as an object)
NoExposure == [ undefined |-> TRUE ]

\* a <= b on numbers: false when either side is NaN
JsLe(a, b) == a # NaN /\ b # NaN /\ a <= b
\* a > b on numbers: false when either side is NaN
JsGt(a, b) == a # NaN /\ b # NaN /\ a > b

\* parseInt(x, 10) of a block number or of undefined
ParseInt(x) == IF x = UndefinedNumber THEN NaN ELSE x

\* an object without keys
EmptyMap == [ k \in {} |-> 0 ]
\* m[k] is present (a partial map is a function on the keys it has)
Has(m, k) == k \in DOMAIN m

RECURSIVE SumSeq(_)
SumSeq(s) == IF s = <<>> THEN 0 ELSE Head(s) + SumSeq(Tail(s))

\* s.filter(p).length, for the set kept of the indexes that satisfy p
FilterLength(s, kept) == Cardinality(DOMAIN s \cap kept)

(***************************************************************************)
(* Identity helpers, ranking.js:23-88.  A text field of an identity is a   *)
(* sequence of characters; the empty sequence stands for '' and for        *)
(* undefined, which the code does not tell apart (identity.display || ''). *)
(***************************************************************************)
Truthy(str) == str # <<>>

isVerifiedIdentity(identity) ==
  IF Len(identity.judgements) = 0 THEN FALSE
  ELSE \E i \in DOMAIN identity.judgements :
         /\ identity.judgements[i] # "FeePaid"
         /\ identity.judgements[i] \in {"KnownGood", "Reasonable"}

getName(identity) ==
  IF Truthy(identity.displayParent) /\ Truthy(identity.display)
    THEN identity.displayParent \o <<"/">> \o identity.display
    ELSE identity.display

getClusterName(identity) == identity.displayParent

subIdentity(identity) ==
  Truthy(identity.displayParent) /\ Truthy(identity.display)

getIdentityRating(name, verifiedIdentity, hasAllFields) ==
  IF verifiedIdentity /\ hasAllFields THEN 3
  ELSE IF verifiedIdentity /\ ~hasAllFields THEN 2
  ELSE IF name # <<>> THEN 1
  ELSE 0

parseIdentity(identity) ==
  LET verifiedIdentity == isVerifiedIdentity(identity)
      hasSubIdentity == subIdentity(identity)
      name == getName(identity)
      hasAllFields == /\ Truthy(identity.display)
                      /\ Truthy(identity.legal)
                      /\ Truthy(identity.web)
                      /\ Truthy(identity.email)
                      /\ Truthy(identity.twitter)
                      /\ Truthy(identity.riot)
  IN [ verifiedIdentity |-> verifiedIdentity,
       hasSubIdentity |-> hasSubIdentity,
       name |-> name,
       identityRating |-> getIdentityRating(name, verifiedIdentity, hasAllFields) ]

(***************************************************************************)
(* Commission, ranking.js:90-127.  A commission is kept in the chain's     *)
(* parts-per-billion; the code's percent value is that number divided by   *)
(* CommissionUnit, so a comparison with p percent is one with              *)
(* p * CommissionUnit.                                                     *)
(***************************************************************************)
getCommissionHistory(accountId, erasPreferences) ==
  [ i \in DOMAIN erasPreferences |->
      IF Has(erasPreferences[i].validators, accountId)
        THEN [ era |-> erasPreferences[i].era,
               commission |-> erasPreferences[i].validators[accountId] ]
        ELSE [ era |-> erasPreferences[i].era, commission |-> UndefinedNumber ] ]

\* a > b on two history entries: both are objects, converted by ToPrimitive
\* to the string "[object Object]", and the two strings are compared
ToPrimitive(entry) == "[object Object]"
JsObjectGt(a, b) == ToPrimitive(a) # ToPrimitive(b) /\ a.commission > b.commission

\* a rating that takes 100 percent for one more commission above 10 percent
getCommissionRatingUncapped(commission, commissionHistory) ==
  IF commission # 0
    THEN IF commission > 10 * CommissionUnit THEN 1
         ELSE IF commission >= 5 * CommissionUnit THEN 2
         ELSE 3
    ELSE 0

getCommissionRating(commission, commissionHistory) ==
  IF commission # 100 * CommissionUnit /\ commission # 0
    THEN IF commission > 10 * CommissionUnit THEN 1
         ELSE IF commission >= 5 * CommissionUnit
           THEN IF /\ Len(commissionHistory) > 1
                   /\ JsObjectGt(commissionHistory[1],
                                 commissionHistory[Len(commissionHistory)])
                  THEN 3
                  ELSE 2
         ELSE 3
    ELSE 0

getPayoutRating(payoutHistory, erasPerDay) ==
  LET pendingEras == FilterLength(payoutHistory, { i \in DOMAIN payoutHistory : payoutHistory[i].status = "pending" })
  IN IF pendingEras <= erasPerDay THEN 3
     ELSE IF pendingEras <= 3 * erasPerDay THEN 2
     ELSE IF pendingEras < 7 * erasPerDay THEN 1
     ELSE 0

(***************************************************************************)
(* Cluster of a validator, ranking.js:141-174.                             *)
(***************************************************************************)
Digits == {"0", "1", "2", "3", "4", "5", "6", "7", "8", "9"}

\* str.substring(0, n)
Substring0(str, n) == SubSeq(str, 1, IF Len(str) < n THEN Len(str) ELSE n)

DropLast(str) == SubSeq(str, 1, Len(str) - 1)

\* str.replace(/\d{1,2}$/g, ''): the match is the leftmost one, so two
\* trailing digits go when there are two
ReplaceTrailingDigits(str) ==
  IF Len(str) >= 2 /\ str[Len(str)] \in Digits /\ str[Len(str) - 1] \in Digits
    THEN SubSeq(str, 1, Len(str) - 2)
  ELSE IF Len(str) >= 1 /\ str[Len(str)] \in Digits
    THEN DropLast(str)
  ELSE str

\* str.replace(/c$/g, '')
ReplaceTrailing(str, c) ==
  IF Len(str) >= 1 /\ str[Len(str)] = c THEN DropLast(str) ELSE str

StringSize == 6

getClusterInfo(hasSubIdentity, validators, validatorIdentity) ==
  IF ~hasSubIdentity
    THEN IF Truthy(validatorIdentity.display)
           THEN [ clusterName |->
                    ReplaceTrailing(
                      ReplaceTrailing(
                        ReplaceTrailingDigits(validatorIdentity.display), "-"), "_"),
                  clusterMembers |->
                    FilterLength(validators, { i \in DOMAIN validators :
                      Substring0(validators[i].identity.display, StringSize)
                        = Substring0(validatorIdentity.display, StringSize) }) ]
           ELSE [ clusterName |-> <<>>, clusterMembers |-> 0 ]
    ELSE [ clusterName |-> getClusterName(validatorIdentity),
           clusterMembers |->
             FilterLength(validators, { i \in DOMAIN validators :
               validators[i].identity.displayParent = validatorIdentity.displayParent }) ]

(***************************************************************************)
(* The scoring of one validator, the callback of validators.map at         *)
(* ranking.js:411-663.                                                     *)
(*                                                                         *)
(* A chain snapshot w holds what the data collection (ranking.js:205-285)  *)
(* and the first processing steps (292-374) hand to the callback:          *)
(*   blockHeight, validators (active ones, then waiting ones),             *)
(*   erasPoints, erasPreferences, erasSlashes, erasExposure,               *)
(*   councilVotes, proposals, referendums, nominations,                    *)
(*   maxNominatorRewardedPerValidator, and the configuration.              *)
(***************************************************************************)
\* validatorAddresses.length, ranking.js:293
numActiveValidators(w) == FilterLength(w.validators, { i \in DOMAIN w.validators : w.validators[i].active })

\* ranking.js:294-301
eraPointsHistoryTotalsSum(w) ==
  SumSeq([ i \in DOMAIN w.erasPoints |-> w.erasPoints[i].eraPoints ])

\* ranking.js:366-373
participateInGovernance(w) ==
  UNION { {w.proposals[i].proposer} \cup w.proposals[i].seconds : i \in DOMAIN w.proposals }
    \cup UNION { w.referendums[i].votes : i \in DOMAIN w.referendums }

\* stashAddressesCreation[address], undefined when the key was never set
CreationOf(stashAddressesCreation, address) ==
  IF Has(stashAddressesCreation, address)
    THEN stashAddressesCreation[address]
    ELSE UndefinedNumber

\* best <= (blockHeight / 4) * k, in integers; false for NaN
LeQuarters(best, blockHeight, k) == best # NaN /\ 4 * best <= k * blockHeight

\* ranking.js:419-443
addressCreationRatingOf(validator, w, stashAddressesCreation) ==
  LET stashCreatedAtBlock ==
        ParseInt(CreationOf(stashAddressesCreation, validator.stashId))
      stashParentCreatedAtBlock ==
        ParseInt(CreationOf(stashAddressesCreation, validator.identity.parent))
      best == IF validator.identity.parent # Undefined
                THEN IF JsGt(stashParentCreatedAtBlock, stashCreatedAtBlock)
                       THEN stashCreatedAtBlock
                       ELSE stashParentCreatedAtBlock
                ELSE stashCreatedAtBlock
  IN IF LeQuarters(best, w.blockHeight, 1) THEN 3
     ELSE IF LeQuarters(best, w.blockHeight, 2) THEN 2
     ELSE IF LeQuarters(best, w.blockHeight, 3) THEN 1
     ELSE 0

\* ranking.js:477-487
nominatorsOf(validator, w) ==
  IF validator.active
    THEN Len(validator.exposure.others)
    ELSE FilterLength(w.nominations, { i \in DOMAIN w.nominations : validator.accountId \in w.nominations[i].targets })

\* ranking.js:489-494
slashedOf(validator, w) ==
  FilterLength(w.erasSlashes, { i \in DOMAIN w.erasSlashes : validator.accountId \in w.erasSlashes[i].validators }) > 0

\* ranking.js:511-521
councilBackingOf(validator, w) ==
  IF validator.identity.parent # Undefined
    THEN validator.accountId \in w.councilVotes
           \/ validator.identity.parent \in w.councilVotes
    ELSE validator.accountId \in w.councilVotes

\* ranking.js:522-527
activeInGovernanceOf(validator, w) ==
  IF validator.identity.parent # Undefined
    THEN validator.accountId \in participateInGovernance(w)
           \/ validator.identity.parent \in participateInGovernance(w)
    ELSE validator.accountId \in participateInGovernance(w)

\* a grading that counts the two kinds of participation
governanceRatingCounted(councilBacking, activeInGovernance) ==
  (IF councilBacking THEN 1 ELSE 0) + (IF activeInGovernance THEN 1 ELSE 0)

\* ranking.js:528-533
governanceRatingOf(councilBacking, activeInGovernance) ==
  IF councilBacking /\ activeInGovernance THEN 3
  ELSE IF councilBacking \/ activeInGovernance THEN 2
  ELSE 0

\* ranking.js:541-578, the points and the payout state of every era
eraPointsHistoryOf(validator, w) ==
  [ i \in DOMAIN w.erasPoints |->
      [ era |-> w.erasPoints[i].era,
        points |-> IF Has(w.erasPoints[i].validators, validator.stashId)
                     THEN w.erasPoints[i].validators[validator.stashId]
                     ELSE 0 ] ]

payoutHistoryOf(validator, w) ==
  [ i \in DOMAIN w.erasPoints |->
      [ era |-> w.erasPoints[i].era,
        status |-> IF Has(w.erasPoints[i].validators, validator.stashId)
                     THEN IF w.erasPoints[i].era \in validator.stakingLedger.claimedRewards
                            THEN "paid"
                            ELSE "pending"
                     ELSE "inactive" ] ]

activeErasOf(validator, w) ==
  FilterLength(w.erasPoints, { i \in DOMAIN w.erasPoints : Has(w.erasPoints[i].validators, validator.stashId) })

\* eraPointsHistoryValidator > eraPointsAverage (ranking.js:302, 584), where
\* the average is the sum divided by the number of active validators: with
\* none the quotient is Infinity or NaN and the comparison is false
eraPointsRatingOf(validator, w) ==
  LET eraPointsHistory == eraPointsHistoryOf(validator, w)
      eraPointsHistoryValidator ==
        SumSeq([ i \in DOMAIN eraPointsHistory |-> eraPointsHistory[i].points ])
  IN IF /\ numActiveValidators(w) > 0
        /\ eraPointsHistoryValidator * numActiveValidators(w)
             > eraPointsHistoryTotalsSum(w)
       THEN 2
       ELSE 0

\* The callback throws a TypeError when it reads a property of undefined:
\* validator.exposure of an active validator without exposure (ranking.js:480,
\* 589), or the exposure entry of an era in which the validator has points
\* (ranking.js:558-562).
hasEraExposure(validator, w, era) ==
  \E j \in DOMAIN w.erasExposure :
    /\ w.erasExposure[j].era = era
    /\ Has(w.erasExposure[j].validators, validator.stashId)

\* The arithmetic of JavaScript numbers (IEEE 754 binary64, rounding to
\* nearest, ties to even) on numbers that are not negative.  A number is 0,
\* [m |-> <<>>, e |-> 0], Infinity, [m |-> <<>>, e |-> 1], NaN,
\* [m |-> <<>>, e |-> 2], or m * 2^e with 2^52 <= m < 2^53; m is held as its
\* digits of base 2^15, the least significant first.  op is "int" (the
\* number of the integer a), "add", "sub" (a >= b, or a or b not finite),
\* "mul", "div", "less" (a < b) or "toFixed" (a * b rounded half up to a
\* whole number, b an integer: the digits toFixed prints; NaN and Infinity
\* for the numbers it prints as "NaN" and "Infinity").
Float64(op, a, b) ==
  LET B == 32768
      Zero == [ m |-> <<>>, e |-> 0 ]
      Infinite == [ m |-> <<>>, e |-> 1 ]
      Invalid == [ m |-> <<>>, e |-> 2 ]
      Digit(x, i) == IF i <= Len(x) THEN x[i] ELSE 0
      RECURSIVE Trim(_)
      Trim(x) == IF x # <<>> /\ x[Len(x)] = 0 THEN Trim(SubSeq(x, 1, Len(x) - 1)) ELSE x
      RECURSIVE OfInt(_)
      OfInt(k) == IF k = 0 THEN <<>> ELSE <<k % B>> \o OfInt(k \div B)
      RECURSIVE ToInt(_)
      ToInt(x) == IF x = <<>> THEN 0 ELSE x[1] + B * ToInt(Tail(x))
      RECURSIVE BitsOf(_)
      BitsOf(k) == IF k = 0 THEN 0 ELSE 1 + BitsOf(k \div 2)
      Bits(x) == IF x = <<>> THEN 0 ELSE 15 * (Len(x) - 1) + BitsOf(x[Len(x)])
      RECURSIVE LessFrom(_, _, _)
      LessFrom(x, y, i) ==
        IF i = 0 THEN FALSE
        ELSE IF x[i] # y[i] THEN x[i] < y[i] ELSE LessFrom(x, y, i - 1)
      Less(x, y) == IF Len(x) # Len(y) THEN Len(x) < Len(y) ELSE LessFrom(x, y, Len(x))
      RECURSIVE AddFrom(_, _, _, _)
      AddFrom(x, y, i, carry) ==
        IF i > Len(x) /\ i > Len(y) THEN (IF carry = 0 THEN <<>> ELSE <<carry>>)
        ELSE <<(Digit(x, i) + Digit(y, i) + carry) % B>>
               \o AddFrom(x, y, i + 1, (Digit(x, i) + Digit(y, i) + carry) \div B)
      Add(x, y) == AddFrom(x, y, 1, 0)
      RECURSIVE SubFrom(_, _, _, _)
      SubFrom(x, y, i, borrow) ==
        IF i > Len(x) THEN <<>>
        ELSE <<(x[i] - Digit(y, i) - borrow + B) % B>>
               \o SubFrom(x, y, i + 1, IF x[i] - Digit(y, i) - borrow < 0 THEN 1 ELSE 0)
      Sub(x, y) == Trim(SubFrom(x, y, 1, 0))
      RECURSIVE TimesFrom(_, _, _, _)
      TimesFrom(x, k, i, carry) ==
        IF i > Len(x) THEN (IF carry = 0 THEN <<>> ELSE <<carry>>)
        ELSE <<(x[i] * k + carry) % B>> \o TimesFrom(x, k, i + 1, (x[i] * k + carry) \div B)
      Times(x, k) == Trim(TimesFrom(x, k, 1, 0))
      Shift(x, j) == IF x = <<>> THEN <<>> ELSE [ i \in 1..j |-> 0 ] \o x
      ShiftLeft(x, k) == Shift(Times(x, 2^(k % 15)), k \div 15)
      RECURSIVE MulFrom(_, _, _)
      MulFrom(x, y, j) ==
        IF j > Len(y) THEN <<>>
        ELSE Add(Shift(Times(x, y[j]), j - 1), MulFrom(x, y, j + 1))
      Mul(x, y) == MulFrom(x, y, 1)
      WithDigit(rest, d) == [ q |-> Append(rest.q, d), r |-> rest.r ]
      RECURSIVE DivSmallFrom(_, _, _, _)
      DivSmallFrom(x, k, i, rem) ==
        IF i = 0 THEN [ q |-> <<>>, r |-> rem ]
        ELSE WithDigit(DivSmallFrom(x, k, i - 1, (rem * B + x[i]) % k), (rem * B + x[i]) \div k)
      Trimmed(qr) == [ q |-> Trim(qr.q), r |-> qr.r ]
      DivSmall(x, k) == Trimmed(DivSmallFrom(x, k, Len(x), 0))
      RECURSIVE Scale(_)
      Scale(top) == IF top >= 16384 THEN 1 ELSE 2 * Scale(2 * top)
      Estimate(r, top) ==
        LET est == (r[Len(r)] * B + r[Len(r) - 1]) \div (top + 1)
        IN IF est > B - 1 THEN B - 1 ELSE est
      RECURSIVE DivLoop(_, _, _)
      DivLoop(r, y, q) ==
        IF Less(r, y) THEN [ q |-> q, r |-> r ]
        ELSE IF Len(r) = Len(y) THEN DivLoop(Sub(r, y), y, Add(q, <<1>>))
        ELSE DivLoop(Sub(r, Shift(Times(y, Estimate(r, y[Len(y)])), Len(r) - Len(y) - 1)),
                     y,
                     Add(q, Shift(<<Estimate(r, y[Len(y)])>>, Len(r) - Len(y) - 1)))
      Unscaled(qr, f) == [ q |-> qr.q, r |-> DivSmall(qr.r, f).q ]
      DivModBy(x, y, f) == Unscaled(DivLoop(Times(x, f), Times(y, f), <<>>), f)
      DivMod(x, y) == DivModBy(x, y, Scale(y[Len(y)]))
      NonZero(x) == \E i \in DOMAIN x : x[i] # 0
      Parts(high, low, k) ==
        [ q |-> high.q,
          round |-> high.r >= 2^(k - 1),
          rest |-> high.r % 2^(k - 1) # 0 \/ NonZero(low) ]
      Cut(x, limbs, k) ==
        Parts(DivSmall(SubSeq(x, limbs + 1, Len(x)), 2^k),
              SubSeq(x, 1, IF limbs < Len(x) THEN limbs ELSE Len(x)), k)
      ShiftRight(x, s) ==
        IF s % 15 = 0 THEN Cut(x, s \div 15 - 1, 15) ELSE Cut(x, s \div 15, s % 15)
      Odd(x) == x # <<>> /\ x[1] % 2 = 1
      Carried(m, e) ==
        IF Bits(m) = 54 THEN [ m |-> ShiftLeft(<<1>>, 52), e |-> e + 1 ]
        ELSE [ m |-> m, e |-> e ]
      Nearest(p, e, sticky) ==
        Carried(IF p.round /\ (p.rest \/ sticky \/ Odd(p.q)) THEN Add(p.q, <<1>>) ELSE p.q, e)
      RoundTo(x, e, sticky, bits) ==
        IF bits = 0 THEN Zero
        ELSE IF bits <= 53 THEN [ m |-> ShiftLeft(x, 53 - bits), e |-> e - (53 - bits) ]
        ELSE Nearest(ShiftRight(x, bits - 53), e + (bits - 53), sticky)
      Round(x, e, sticky) == RoundTo(x, e, sticky, Bits(x))
      Quotient(qr, e) == Round(qr.q, e, qr.r # <<>>)
      Aligned(x, e) == ShiftLeft(x.m, x.e - e)
      Lower(x, y) == IF x.e < y.e THEN x.e ELSE y.e
      HalfUp(p) == ToInt(p.q) + (IF p.round THEN 1 ELSE 0)
      Scaled(x, e) == IF e >= 0 THEN ToInt(ShiftLeft(x, e)) ELSE HalfUp(ShiftRight(x, 0 - e))
  IN CASE op = "int" -> Round(OfInt(a), 0, FALSE)
       [] op = "add" ->
            IF a = Invalid \/ b = Invalid THEN Invalid
            ELSE IF a = Infinite \/ b = Infinite THEN Infinite
            ELSE IF a.m = <<>> THEN b
            ELSE IF b.m = <<>> THEN a
            ELSE Round(Add(Aligned(a, Lower(a, b)), Aligned(b, Lower(a, b))), Lower(a, b), FALSE)
       [] op = "sub" ->
            IF a = Invalid \/ b = Invalid THEN Invalid
            ELSE IF a = Infinite THEN (IF b = Infinite THEN Invalid ELSE Infinite)
            ELSE IF b.m = <<>> THEN a
            ELSE Round(Sub(Aligned(a, Lower(a, b)), Aligned(b, Lower(a, b))), Lower(a, b), FALSE)
       [] op = "mul" ->
            IF a = Invalid \/ b = Invalid THEN Invalid
            ELSE IF a = Infinite \/ b = Infinite
              THEN (IF a = Zero \/ b = Zero THEN Invalid ELSE Infinite)
            ELSE IF a.m = <<>> \/ b.m = <<>> THEN Zero
            ELSE Round(Mul(a.m, b.m), a.e + b.e, FALSE)
       [] op = "div" ->
            IF a = Invalid \/ b = Invalid THEN Invalid
            ELSE IF a = Infinite THEN (IF b = Infinite THEN Invalid ELSE Infinite)
            ELSE IF b = Infinite THEN Zero
            ELSE IF b = Zero THEN (IF a = Zero THEN Invalid ELSE Infinite)
            ELSE IF a.m = <<>> THEN Zero
            ELSE IF a = b THEN [ m |-> ShiftLeft(<<1>>, 52), e |-> 0 - 52 ]
            ELSE Quotient(DivMod(ShiftLeft(a.m, 56), b.m), a.e - b.e - 56)
       [] op = "less" ->
            IF a = Invalid \/ b = Invalid THEN FALSE
            ELSE IF a = Infinite THEN FALSE
            ELSE IF b = Infinite THEN TRUE
            ELSE IF b.m = <<>> THEN FALSE
            ELSE IF a.m = <<>> THEN TRUE
            ELSE IF a.e # b.e THEN a.e < b.e
            ELSE Less(a.m, b.m)
       [] op = "toFixed" ->
            IF a = Invalid THEN NaN
            ELSE IF a = Infinite THEN Infinity
            ELSE IF a.m = <<>> THEN 0
            ELSE Scaled(Mul(a.m, OfInt(b)), a.e)

\* ranking.js:564: new BigNumber(10).pow(config.tokenDecimals), a power of
\* ten that a double holds exactly
TokenUnit ==
  Float64("mul", Float64("int", 10^(TokenDecimals \div 2), 0),
                 Float64("int", 10^(TokenDecimals - TokenDecimals \div 2), 0))

\* ranking.js:545-564, eraPerformance in the era of erasPoints[i]:
\* (points * (1 - (commission / 100))) / (eraTotalStake / 10^tokenDecimals)
\* in the doubles of the program, where commission is the double of
\* ranking.js:498-501 and the divisor is the double nearest to the decimal
\* number bignumber.js holds: Infinity or NaN when eraTotalStake is 0; 0 in
\* an era without points of the validator
eraPerformanceOf(validator, w, i) ==
  IF /\ Has(w.erasPoints[i].validators, validator.stashId)
     /\ hasEraExposure(validator, w, w.erasPoints[i].era)
    THEN LET points == w.erasPoints[i].validators[validator.stashId]
             commission ==
               Float64("div", Float64("int", validator.validatorPrefs.commission, 0),
                              Float64("int", CommissionUnit, 0))
             found == { j \in DOMAIN w.erasExposure :
                          w.erasExposure[j].era = w.erasPoints[i].era }
             first == CHOOSE j \in found : \A k \in found : j <= k
             eraTotalStake == w.erasExposure[first].validators[validator.stashId].total
         IN Float64("div",
                    Float64("mul",
                            Float64("int", points, 0),
                            Float64("sub",
                                    Float64("int", 1, 0),
                                    Float64("div", commission, Float64("int", 100, 0)))),
                    Float64("div", Float64("int", eraTotalStake, 0), TokenUnit))
    ELSE Float64("int", 0, 0)

\* ranking.js:540, 577: performance, the era performances added up in the
\* order of erasPoints, each sum rounded to a double
performanceOf(validator, w) ==
  LET RECURSIVE SumTo(_)
      SumTo(n) ==
        IF n = 0 THEN Float64("int", 0, 0)
        ELSE Float64("add", SumTo(n - 1), eraPerformanceOf(validator, w, n))
  IN SumTo(Len(w.erasPoints))

ScoreThrows(validator, w) ==
  \/ validator.active /\ validator.exposure = NoExposure
  \/ \E i \in DOMAIN w.erasPoints :
       /\ Has(w.erasPoints[i].validators, validator.stashId)
       /\ ~hasEraExposure(validator, w, w.erasPoints[i].era)

\* ranking.js:540-577 for each validator of the snapshot
performancesOf(w) ==
  SubSeq([ i \in DOMAIN w.validators |-> performanceOf(w.validators[i], w) ],
         1, Len(w.validators))

\* ranking.js:620-662: the returned object with its performance (631)
WithPerformance(scored, performance) ==
  [ field \in DOMAIN scored \cup {"performance"} |->
      IF field = "performance" THEN performance ELSE scored[field] ]

\* ranking.js:608-618
totalRatingOf(r) ==
  r.activeRating
    + r.addressCreationRating
    + r.identityRating
    + r.subAccountsRating
    + r.nominatorsRating
    + r.commissionRating
    + r.eraPointsRating
    + r.slashRating
    + r.governanceRating
    + r.payoutRating

\* the component ratings of one validator
RatingsOf(validator, w, stashAddressesCreation) ==
  LET id == parseIdentity(validator.identity)
      nominators == nominatorsOf(validator, w)
      councilBacking == councilBackingOf(validator, w)
      activeInGovernance == activeInGovernanceOf(validator, w)
  IN [ activeRating |-> IF validator.active THEN 2 ELSE 0,
       addressCreationRating |->
         addressCreationRatingOf(validator, w, stashAddressesCreation),
       identityRating |-> id.identityRating,
       subAccountsRating |-> IF id.hasSubIdentity THEN 2 ELSE 0,
       nominatorsRating |->
         IF nominators > 0 /\ nominators <= w.maxNominatorRewardedPerValidator
           THEN 2 ELSE 0,
       commissionRating |->
         getCommissionRating(validator.validatorPrefs.commission,
                             getCommissionHistory(validator.accountId, w.erasPreferences)),
       eraPointsRating |-> eraPointsRatingOf(validator, w),
       slashRating |-> IF slashedOf(validator, w) THEN 0 ELSE 2,
       governanceRating |-> governanceRatingOf(councilBacking, activeInGovernance),
       payoutRating |-> getPayoutRating(payoutHistoryOf(validator, w), w.config.erasPerDay) ]

\* the object the callback returns (the fields the tables and the later
\* steps read), but for its performance, which performanceOf gives
ScoreValidator(validator, w, stashAddressesCreation, thousandValidators) ==
  LET id == parseIdentity(validator.identity)
      cluster == getClusterInfo(id.hasSubIdentity, w.validators, validator.identity)
      r == RatingsOf(validator, w, stashAddressesCreation)
  IN [ active |-> validator.active,
       stashAddress |-> validator.stashId,
       name |-> id.name,
       includedThousandValidators |->
         \E i \in DOMAIN thousandValidators :
           thousandValidators[i].stash = validator.stashId,
       clusterName |-> cluster.clusterName,
       clusterMembers |-> cluster.clusterMembers,
       partOfCluster |-> cluster.clusterMembers > 1,
       showClusterMember |-> TRUE,
       activeEras |-> activeErasOf(validator, w),
       selfStake |-> IF validator.active THEN validator.exposure.own
                     ELSE validator.stakingLedger.total,
       activeRating |-> r.activeRating,
       addressCreationRating |-> r.addressCreationRating,
       identityRating |-> r.identityRating,
       subAccountsRating |-> r.subAccountsRating,
       nominatorsRating |-> r.nominatorsRating,
       commissionRating |-> r.commissionRating,
       eraPointsRating |-> r.eraPointsRating,
       slashRating |-> r.slashRating,
       governanceRating |-> r.governanceRating,
       payoutRating |-> r.payoutRating,
       totalRating |-> totalRatingOf(r) ]

(***************************************************************************)
(* Array.prototype.sort as the engine computes it (V8's TimSort) for an    *)
(* array of fewer than 64 elements: one run is counted at the start of the *)
(* array (reversed when it descends) and the rest is added by binary       *)
(* insertion.  Order(a, b) is "comparefn(a, b) < 0".  The code's           *)
(* comparators are not consistent (they never return 0), so the result is  *)
(* what this algorithm makes of their answers.                             *)
(***************************************************************************)
Reverse(s) == [ i \in DOMAIN s |-> s[Len(s) + 1 - i] ]

\* In the three operators below arr is a sequence of positions of the input
\* array and lt[i][j] is the answer "comparefn(input[i], input[j]) < 0".

\* CountAndMakeRun: the length of the run that starts the array
RECURSIVE RunEnd(_, _, _, _)
RunEnd(arr, idx, isDescending, lt) ==
  IF idx > Len(arr) THEN Len(arr)
  ELSE IF isDescending = lt[arr[idx]][arr[idx - 1]]
    THEN RunEnd(arr, idx + 1, isDescending, lt)
    ELSE idx - 1

\* the binary search of BinaryInsertionSort for the place of pivot in
\* arr[left..right-1]
RECURSIVE InsertionPoint(_, _, _, _, _)
InsertionPoint(arr, pivot, left, right, lt) ==
  IF left >= right THEN left
  ELSE LET mid == left + ((right - left) \div 2)
       IN IF lt[pivot][arr[mid]]
            THEN InsertionPoint(arr, pivot, left, mid, lt)
            ELSE InsertionPoint(arr, pivot, mid + 1, right, lt)

RECURSIVE BinaryInsertionSort(_, _, _)
BinaryInsertionSort(arr, start, lt) ==
  IF start > Len(arr) THEN arr
  ELSE LET pivot == arr[start]
           left == InsertionPoint(arr, pivot, 1, start, lt)
           moved == [ i \in DOMAIN arr |->
                        IF i < left \/ i > start THEN arr[i]
                        ELSE IF i = left THEN pivot
                        ELSE arr[i - 1] ]
       IN BinaryInsertionSort(moved, start + 1, lt)

\* the positions of the input in sorted order
SortedPositions(n, lt) ==
  LET arr == [ i \in 1..n |-> i ]
  IN IF n < 2 THEN arr
     ELSE LET isDescending == lt[arr[2]][arr[1]]
              runLength == RunEnd(arr, 3, isDescending, lt)
              run == IF isDescending
                       THEN Reverse(SubSeq(arr, 1, runLength))
                              \o SubSeq(arr, runLength + 1, n)
                       ELSE arr
          IN BinaryInsertionSort(run, runLength + 1, lt)

\* input.sort(comparefn), where lt[i][j] is comparefn(input[i], input[j]) < 0
ArraySort(input, lt) ==
  LET pos == SortedPositions(Len(input), lt)
  IN [ i \in DOMAIN input |-> input[pos[i]] ]

\* ranking.js:664  (a, b) => (a.totalRating < b.totalRating ? 1 : -1)
RatingCompare(a, b) == IF a.totalRating < b.totalRating THEN 1 ELSE -1
RatingOrder(a, b) == RatingCompare(a, b) < 0

\* ranking.js:664-675: sort, then rank = index + 1
SortAndRank(scored) ==
  LET sorted == ArraySort(scored,
                 [ i \in DOMAIN scored |->
                     [ j \in DOMAIN scored |-> RatingOrder(scored[i], scored[j]) ] ])
  IN [ i \in DOMAIN sorted |-> [ rank |-> i, validator |-> sorted[i] ] ]

\* ranking.js:317-318  (a, b) => (a <= b ? 1 : 0), on big numbers
StakeCompare(a, b) == IF a <= b THEN 1 ELSE 0
StakeOrder(a, b) == StakeCompare(a, b) < 0

\* ranking.js:309-319
minimumStakeOf(validators) ==
  LET RECURSIVE Stakes(_)
      Stakes(i) == IF i > Len(validators) THEN <<>>
                   ELSE (IF validators[i].active
                           THEN [ k \in DOMAIN validators[i].exposure.others |->
                                    validators[i].exposure.others[k].value ]
                           ELSE <<>>) \o Stakes(i + 1)
      pushed == Stakes(1)
      nominatorStakes ==
        ArraySort(pushed,
                  [ i \in DOMAIN pushed |->
                      [ j \in DOMAIN pushed |-> StakeOrder(pushed[i], pushed[j]) ] ])
  IN IF nominatorStakes = <<>> THEN UndefinedNumber ELSE nominatorStakes[1]

(***************************************************************************)
(* The relative performance and the Pareto dominance of ranking.js:598-604 *)
(* and 664-708.  A relative performance is the number toFixed(6) prints,   *)
(* in millionths, or NaN or Infinity.                                      *)
(***************************************************************************)
Millionth == 1000000

RECURSIVE maxPerformanceOf(_)
\* ranking.js:224, 599-601
maxPerformanceOf(scored) ==
  LET Larger(before, performance) ==
        IF Float64("less", before, performance) THEN performance ELSE before
  IN IF scored = <<>> THEN Float64("int", 0, 0)
     ELSE Larger(maxPerformanceOf(SubSeq(scored, 1, Len(scored) - 1)),
                 scored[Len(scored)].performance)

RECURSIVE minPerformanceOf(_)
\* ranking.js:225, 602-604
minPerformanceOf(scored) ==
  LET Smaller(before, performance) ==
        IF Float64("less", performance, before) THEN performance ELSE before
  IN IF scored = <<>> THEN Float64("int", 0, 0)
     ELSE Smaller(minPerformanceOf(SubSeq(scored, 1, Len(scored) - 1)),
                  scored[Len(scored)].performance)

\* ranking.js:666-667: ((performance - min) / (max - min)).toFixed(6), in
\* millionths: the two differences and the quotient are doubles, and
\* toFixed rounds the quotient half up. min is never above performance or
\* max; 0 / 0, Infinity / Infinity and a quotient with a NaN are NaN, which
\* toFixed prints as "NaN"
relativePerformanceOf(performance, minPerformance, maxPerformance) ==
  LET Relative(above, range) ==
        Float64("toFixed", Float64("div", above, range), Millionth)
  IN Relative(Float64("sub", performance, minPerformance),
              Float64("sub", maxPerformance, minPerformance))

\* ranking.js:664-675
RankWithPerformance(scored) ==
  LET Ranked(ranked, minPerformance, maxPerformance) ==
        [ i \in DOMAIN ranked |->
            [ rank |-> ranked[i].rank,
              relativePerformance |->
                relativePerformanceOf(ranked[i].validator.performance,
                                      minPerformance, maxPerformance),
              validator |-> ranked[i].validator,
              dominated |-> FALSE ] ]
  IN Ranked(SortAndRank(scored), minPerformanceOf(scored), maxPerformanceOf(scored))

\* a >= b on the numbers parseFloat returns, false when either is NaN
JsGe(a, b) ==
  /\ a # NaN
  /\ b # NaN
  /\ IF a = Infinity THEN TRUE ELSE b # Infinity /\ a >= b

\* ranking.js:690-698
Dominates(opponent, validator) ==
  /\ JsGe(opponent.relativePerformance, validator.relativePerformance)
  /\ opponent.validator.selfStake >= validator.validator.selfStake
  /\ opponent.validator.activeEras >= validator.validator.activeEras
  /\ opponent.validator.totalRating >= validator.validator.totalRating

\* ranking.js:685-708; opponent !== validator compares the entries, not
\* their contents
FindDominated(ranked) ==
  [ i \in DOMAIN ranked |->
      [ ranked[i] EXCEPT
          !.dominated = \E j \in DOMAIN ranked : j # i /\ Dominates(ranked[j], ranked[i]) ] ]

(***************************************************************************)
(* The random hiding of cluster members, ranking.js:176-180 and 712-747,   *)
(* on the fields of the ranked validators it reads and writes: rank,       *)
(* clusterName, clusterMembers and showClusterMember.                      *)
(***************************************************************************)
\* ranking.js:471-473: the names pushed to clusters
clustersOf(entries) ==
  { entries[i].clusterName : i \in DOMAIN entries } \ { <<>> }

\* ranking.js:717: the ranks of ranking.filter(clusterName === cluster)
RanksOfCluster(entries, cluster) ==
  { i \in DOMAIN entries : entries[i].clusterName = cluster }

\* ranking.js:718: clusterMembers[0].clusterMembers
clusterSizeOf(entries, cluster) ==
  LET first == CHOOSE i \in RanksOfCluster(entries, cluster) :
                 \A j \in RanksOfCluster(entries, cluster) : i <= j
  IN entries[first].clusterMembers

\* ranking.js:720-733; Math.floor(k * 0.8) and the like equal the integer
\* quotients for every k
showOf(clusterSize) ==
  IF clusterSize > 50 THEN (clusterSize * 2) \div 10
  ELSE IF clusterSize > 20 THEN (clusterSize * 4) \div 10
  ELSE IF clusterSize > 10 THEN (clusterSize * 6) \div 10
  ELSE IF clusterSize > 2 THEN (clusterSize * 8) \div 10
  ELSE 2

\* the length of arr.slice(0, n), ranking.js:179
SliceLength(length, n) ==
  IF n >= 0 THEN (IF n < length THEN n ELSE length)
  ELSE (IF length + n > 0 THEN length + n ELSE 0)

\* getRandom(rankingPositions, hide), ranking.js:177-180 and 734-738: the
\* shuffle can put any of the positions first
getRandom(arr, n) ==
  { chosen \in SUBSET arr : Cardinality(chosen) = SliceLength(Cardinality(arr), n) }

\* ranking.js:714-739: the values validatorsToHide can take
validatorsToHideOf(entries) ==
  { hidden \in SUBSET (DOMAIN entries) :
      /\ \A i \in hidden : entries[i].clusterName # <<>>
      /\ \A cluster \in clustersOf(entries) :
           LET clusterSize == clusterSizeOf(entries, cluster)
               hide == clusterSize - showOf(clusterSize)
           IN hidden \cap RanksOfCluster(entries, cluster)
                \in getRandom(RanksOfCluster(entries, cluster), hide) }

\* ranking.js:740-747
HideClusterMembers(entries, validatorsToHide) ==
  [ i \in DOMAIN entries |->
      IF entries[i].rank \in validatorsToHide
        THEN [ entries[i] EXCEPT !.showClusterMember = FALSE ]
        ELSE entries[i] ]

(***************************************************************************)
(* Chain snapshots.                                                        *)
(***************************************************************************)
Str(c) == <<c>>

Identity(display, displayParent, parent, rest, judgements) ==
  [ display |-> display, displayParent |-> displayParent, parent |-> parent,
    legal |-> rest, web |-> rest, email |-> rest, twitter |-> rest, riot |-> rest,
    judgements |-> judgements ]

NoIdentity == Identity(<<>>, <<>>, Undefined, <<>>, <<>>)

Validator(address, active, identity, exposure, ledgerTotal, claimedRewards, commission) ==
  [ accountId |-> address, stashId |-> address, controllerId |-> address,
    active |-> active, identity |-> identity, exposure |-> exposure,
    stakingLedger |-> [ total |-> ledgerTotal, claimedRewards |-> claimedRewards ],
    validatorPrefs |-> [ commission |-> commission ] ]

Exposure(own, others) ==
  [ own |-> own,
    total |-> own + SumSeq([ k \in DOMAIN others |-> others[k].value ]),
    others |-> others ]

Config == [ erasPerDay |-> ErasPerDay ]

\* the snapshot of a chain without validators; also the value of the
\* snapshot variables of a run before its queries have answered
EmptyWorld ==
  [ blockHeight |-> 0, currentEra |-> 0, validators |-> <<>>,
    erasPoints |-> <<>>, erasPreferences |-> <<>>, erasSlashes |-> <<>>,
    erasExposure |-> <<>>, councilVotes |-> {}, proposals |-> <<>>,
    referendums |-> <<>>, nominations |-> <<>>,
    maxNominatorRewardedPerValidator |-> 2, events |-> {}, config |-> Config ]

ValA ==
  Validator("A", TRUE,
            Identity(<<"N", "1">>, <<>>, Undefined, Str("x"), <<"Reasonable">>),
            Exposure(5, << [ who |-> "N1", value |-> 3 ], [ who |-> "N2", value |-> 1 ] >>),
            5, {1}, 7 * CommissionUnit)

ValB == Validator("B", FALSE, NoIdentity, NoExposure, 4, {}, 100 * CommissionUnit)

\* a second active validator, scored like ValA
ValC ==
  Validator("C", TRUE,
            Identity(<<"M", "1">>, <<>>, Undefined, Str("x"), <<"Reasonable">>),
            Exposure(5, << [ who |-> "N1", value |-> 2 ] >>),
            5, {1}, 7 * CommissionUnit)

\* an active validator for which the chain returned no exposure
ValNoExposure ==
  Validator("D", TRUE, NoIdentity, NoExposure, 4, {}, 3 * CommissionUnit)

EraPointsA == << [ era |-> 1, eraPoints |-> 10, validators |-> [ a \in {"A"} |-> 10 ] ] >>
EraExposureA == << [ era |-> 1, validators |-> [ a \in {"A"} |-> [ total |-> 9 ] ] ] >>

WorldBase ==
  [ EmptyWorld EXCEPT
      !.currentEra = 2,
      !.erasPoints = EraPointsA,
      !.erasPreferences =
         << [ era |-> 1, validators |-> [ a \in {"A"} |-> 12 * CommissionUnit ] ] >>,
      !.erasSlashes = << [ era |-> 1, validators |-> {} ] >>,
      !.erasExposure = EraExposureA,
      !.councilVotes = {"A"},
      !.nominations = << [ nominator |-> "N1", targets |-> {"A", "B"} ] >>,
      !.events = { [ block_number |-> 1, data |-> {"B"} ] } ]

\* an active and a waiting validator
WorldAB == [ WorldBase EXCEPT !.validators = <<ValA, ValB>> ]
\* two active validators with the same total rating, and a waiting one, all
\* three sub-identities of the account P: a cluster of three
WorldACB ==
  [ WorldBase EXCEPT
      !.validators =
         << [ ValA EXCEPT !.identity =
                Identity(<<"1">>, <<"P">>, "P", Str("x"), <<"Reasonable">>) ],
            [ ValC EXCEPT !.identity =
                Identity(<<"2">>, <<"P">>, "P", Str("x"), <<"Reasonable">>) ],
            [ ValB EXCEPT !.identity = Identity(<<"1">>, <<"P">>, "P", <<>>, <<>>) ] >>,
      !.erasPoints =
         << [ era |-> 1, eraPoints |-> 10, validators |-> [ a \in {"A", "C"} |-> 5 ] ] >>,
      !.erasExposure =
         << [ era |-> 1, validators |-> [ a \in {"A", "C"} |-> [ total |-> 9 ] ] ] >>,
      !.councilVotes = {"A", "C"} ]
\* an active validator without exposure among the validators
WorldNoExposure == [ WorldBase EXCEPT !.validators = <<ValA, ValNoExposure, ValB>> ]
\* era points of a validator in an era without an exposure entry
WorldNoEraExposure ==
  [ WorldBase EXCEPT !.validators = <<ValA, ValB>>, !.erasExposure = <<>> ]

\* the snapshots a run can read: a world at a best block. The block height
\* only reaches the rows and the DELETE, so the world of two validators
\* stands at every height and the others at one; a run on one of the last
\* two worlds throws before it reads blockHeight again
Snapshots ==
  { [ WorldAB EXCEPT !.blockHeight = h ] : h \in 1..MaxHeight }
    \cup { [ w EXCEPT !.blockHeight = 1 ] :
              w \in { WorldACB, WorldNoExposure, WorldNoEraExposure } }

\* the performances of the validators of each snapshot, as a table (@@
\* enumerates the function): the value of a definition without parameters
\* is computed once, and the runs on a snapshot read it here
SnapshotPerformances == [ w \in Snapshots |-> performancesOf(w) ] @@ EmptyMap

\* the candidates the thousand-validator endpoint can answer with
ThousandLists == { << [ stash |-> "A" ] >> }

(***************************************************************************)
(* The scheduler and the pipeline run: module.exports.start,               *)
(* ranking.js:183-923.                                                     *)
(***************************************************************************)
VARIABLES
  run,          \* per invocation of start: its position and its locals
  started,      \* invocations of start so far
  timers,       \* timers armed by setTimeout and not yet fired
  urlValid,     \* the WsProvider constructor accepts wsProviderUrl
  total,        \* SQL table total: name -> count
  ranking,      \* SQL table ranking: a set of rows
  log,          \* what the latest invocation has logged
  connections,  \* chain API connections that are open
  sqlFailures,  \* failed SQL statements so far
  scoreIn,      \* SpecScore and the other function specifications: the input
  scoreOut,     \* SpecScore and the other function specifications: the result
  rankIn,       \* SpecRank: the list of scored validators
  rankOut,      \* SpecRank: the ranked list
  phase         \* function specifications: "in" before the function is applied

vars == << run, started, timers, urlValid, total, ranking, log, connections,
           sqlFailures, scoreIn, scoreOut, rankIn, rankOut, phase >>

pipelineVars == << run, started, timers, urlValid, total, ranking, log,
                   connections, sqlFailures >>
scoreVars == << scoreIn, scoreOut >>
rankVars == << rankIn, rankOut, phase >>

Runs == 1..MaxRuns

\* an order in which the dashboard metrics are published as soon as the
\* queries of Promise.all have answered
StepsPublishingEarly ==
  << "fetch", "connect", "erasHistoric", "currentEra", "queries", "stakes", "total",
     "eraExposure", "stakingQuery", "infoValidators", "infoIntentions",
     "select", "score", "insert", "delete", "disconnect", "arm" >>

\* the statements of the try block in the order the code awaits them
Steps ==
  << "fetch", "connect", "erasHistoric", "currentEra", "queries", "eraExposure",
     "stakingQuery", "infoValidators", "infoIntentions", "stakes", "total",
     "select", "score", "insert", "delete", "disconnect", "arm" >>

\* the chain queries that follow the API connection, ranking.js:207-285
RpcSteps ==
  { "erasHistoric", "currentEra", "queries", "eraExposure", "stakingQuery",
    "infoValidators", "infoIntentions" }

StepAfter(steps, pcv) ==
  steps[(CHOOSE i \in DOMAIN steps : steps[i] = pcv) + 1]

NextStep(pcv) == StepAfter(Steps, pcv)

\* the rows of table total the run updates, ranking.js:325-354
TotalNames ==
  << "active_validator_count", "waiting_validator_count", "nominator_count",
     "current_era", "minimum_stake" >>

TotalValue(w, i) ==
  CASE i = 1 -> numActiveValidators(w)
    [] i = 2 -> Len(w.validators) - numActiveValidators(w)
    [] i = 3 -> Len(w.nominations)
    [] i = 4 -> w.currentEra
    [] i = 5 -> minimumStakeOf(w.validators)

NoIssue == [ updates |-> 0, inserts |-> 0, deletes |-> 0 ]

\* a run that has not started, and the locals of one that has returned
NoRun ==
  [ pc |-> "none", error |-> "none", fetchFailed |-> FALSE,
    thousandValidators |-> <<>>, w |-> EmptyWorld, idx |-> 1,
    stashAddressesCreation |-> EmptyMap, ranking |-> <<>>, issued |-> NoIssue ]

Executing(r) == run[r].pc \notin {"none", "returned", "threw"}

\* a fetch that answers a failed request with the candidates it knows
getThousandValidatorsStale(response) ==
  IF response.ok THEN response.data ELSE << [ stash |-> "A" ] >>

\* getThousandValidators, ranking.js:13-21: response.data, or [] when the
\* request fails
getThousandValidators(response) ==
  IF response.ok THEN response.data ELSE <<>>

\* SELECT block_number FROM event WHERE method = 'NewAccount' AND data LIKE
\* '%address%': the rows come in no stated order
SelectNewAccount(events, address) == { e \in events : address \in e.data }

\* ranking.js:385-392 and 399-406: the entries a result adds to
\* stashAddressesCreation; first is rows[0] when there are rows
CreationEntry(address, rows, first) ==
  IF rows # {}
    THEN IF first.block_number # 0
           THEN [ a \in {address} |-> first.block_number ]
           ELSE EmptyMap
    ELSE [ a \in {address} |-> 0 ]

Merge(m, e) ==
  [ a \in DOMAIN m \cup DOMAIN e |-> IF a \in DOMAIN e THEN e[a] ELSE m[a] ]

\* the rows rows[0] can be
FirstRows(rows) == IF rows = {} THEN { Undefined } ELSE rows

\* the row INSERT INTO ranking writes for one ranked validator,
\* ranking.js:753-895 (the columns the claims read)
RankingRow(blockHeight, ranked, startTime) ==
  [ block_height |-> blockHeight,
    rank |-> ranked.rank,
    stash_address |-> ranked.validator.stashAddress,
    included_thousand_validators |-> ranked.validator.includedThousandValidators,
    total_rating |-> ranked.validator.totalRating,
    timestamp |-> startTime ]

\* DELETE FROM ranking WHERE block_height != blockHeight, ranking.js:904
DeleteOld(table, blockHeight) == { row \in table : row.block_height = blockHeight }

\* a failed write that reaches the catch of the try block
AbortAfterFailedWrite(next) == "caught"

\* where the run goes on after the catch of a failed UPDATE, INSERT or
\* DELETE has logged it, ranking.js:328, 899, 907
AfterFailedWrite(next) == next

\* a timer that stays armed after it has fired, as setInterval's does
FireInterval(t) == t

\* setTimeout fires once
FireTimer(t) == t - 1

Set(r, rec) == run' = [ run EXCEPT ![r] = rec ]

Init ==
  /\ run = [ r \in Runs |-> IF r = 1 THEN [ NoRun EXCEPT !.pc = "delay" ] ELSE NoRun ]
  /\ started = 1
  /\ timers = 0
  /\ urlValid \in BOOLEAN
  /\ total = [ n \in { TotalNames[i] : i \in DOMAIN TotalNames } |-> 0 ]
  /\ ranking = {}
  /\ log = {}
  /\ connections = 0
  /\ sqlFailures = 0
  /\ scoreIn = Undefined /\ scoreOut = Undefined
  /\ rankIn = <<>> /\ rankOut = <<>>
  /\ phase = "in"

\* ranking.js:184-187: the first invocation waits config.startDelay
Delay(r) ==
  /\ run[r].pc = "delay"
  /\ Set(r, [ run[r] EXCEPT !.pc = "provider" ])
  /\ UNCHANGED << started, timers, urlValid, total, ranking, log, connections, sqlFailures >>

\* ranking.js:188-191: new WsProvider(wsProviderUrl), outside the try block
Provider(r) ==
  /\ run[r].pc = "provider"
  /\ IF urlValid
       THEN Set(r, [ run[r] EXCEPT !.pc = Steps[1] ])
       ELSE Set(r, [ NoRun EXCEPT !.pc = "threw" ])
  /\ UNCHANGED << started, timers, urlValid, total, ranking, log, connections, sqlFailures >>

\* ranking.js:199-201
Fetch(r) ==
  /\ run[r].pc = "fetch"
  /\ \E response \in { [ ok |-> TRUE, data |-> d ] : d \in ThousandLists }
                       \cup { [ ok |-> FALSE ] } :
       /\ Set(r, [ run[r] EXCEPT !.pc = NextStep("fetch"),
                                 !.fetchFailed = ~response.ok,
                                 !.thousandValidators = getThousandValidators(response) ])
       /\ log' = IF response.ok THEN log ELSE log \cup {"thousand"}
  /\ UNCHANGED << started, timers, urlValid, total, ranking, connections, sqlFailures >>

\* ranking.js:205: ApiPromise.create
Connect(r) ==
  /\ run[r].pc = "connect"
  /\ \/ /\ Set(r, [ run[r] EXCEPT !.pc = NextStep("connect") ])
        /\ connections' = connections + 1
     \/ /\ Set(r, [ run[r] EXCEPT !.pc = "caught", !.error = "rpc" ])
        /\ connections' = connections
  /\ UNCHANGED << started, timers, urlValid, total, ranking, log, sqlFailures >>

\* ranking.js:207-285: each awaited chain query answers or rejects; the
\* snapshot is what the queries of Promise.all (227-252) and the later ones
\* answer with
Rpc(r) ==
  /\ run[r].pc \in RpcSteps
  /\ \/ /\ run[r].pc = "queries"
        /\ \E w \in Snapshots :
             Set(r, [ run[r] EXCEPT !.pc = NextStep("queries"), !.w = w ])
     \/ /\ run[r].pc # "queries"
        /\ Set(r, [ run[r] EXCEPT !.pc = NextStep(run[r].pc), !.idx = 1 ])
     \/ Set(r, [ run[r] EXCEPT !.pc = "caught", !.error = "rpc" ])
  /\ UNCHANGED << started, timers, urlValid, total, ranking, log, connections, sqlFailures >>

\* ranking.js:292-324: the dashboard metrics; validator.exposure.others of
\* an active validator without exposure throws a TypeError
StakesStep(r) ==
  /\ run[r].pc = "stakes"
  /\ IF \E i \in DOMAIN run[r].w.validators :
          run[r].w.validators[i].active /\ run[r].w.validators[i].exposure = NoExposure
       THEN Set(r, [ run[r] EXCEPT !.pc = "caught", !.error = "type" ])
       ELSE Set(r, [ run[r] EXCEPT !.pc = NextStep("stakes"), !.idx = 1 ])
  /\ UNCHANGED << started, timers, urlValid, total, ranking, log, connections, sqlFailures >>

\* ranking.js:325-354: five UPDATEs of total, each in a try block of its own
TotalUpdate(r) ==
  /\ run[r].pc = "total"
  /\ LET i == run[r].idx
         after == IF i = Len(TotalNames) THEN NextStep("total") ELSE "total"
         issued == [ run[r].issued EXCEPT !.updates = @ + 1 ]
     IN \/ /\ total' = [ total EXCEPT ![TotalNames[i]] = TotalValue(run[r].w, i) ]
           /\ Set(r, [ run[r] EXCEPT !.pc = after,
                                     !.idx = IF after = "total" THEN i + 1 ELSE 1,
                                     !.issued = issued ])
           /\ UNCHANGED << log, sqlFailures >>
        \/ /\ sqlFailures < MaxSqlFailures
           /\ sqlFailures' = sqlFailures + 1
           /\ log' = log \cup {"total"}
           /\ Set(r, [ run[r] EXCEPT !.pc = AfterFailedWrite(after),
                                     !.idx = IF after = "total" THEN i + 1 ELSE 1,
                                     !.issued = issued ])
           /\ UNCHANGED total
  /\ UNCHANGED << started, timers, urlValid, ranking, connections >>

\* ranking.js:376-392: the awaited SELECT of the creation block of the stash
\* of validators[idx], and the entry its answer adds; the loop ends after
\* the last validator. The SELECT is in no try block of its own
Select(r) ==
  /\ run[r].pc = "select"
  /\ LET i == run[r].idx
         w == run[r].w
     IN IF i > Len(w.validators)
          THEN /\ Set(r, [ run[r] EXCEPT !.pc = NextStep("select"), !.idx = 1 ])
               /\ UNCHANGED sqlFailures
          ELSE LET stash == w.validators[i].stashId
                   parent == w.validators[i].identity.parent
                   rows == SelectNewAccount(w.events, stash)
               IN \/ /\ \E first \in FirstRows(rows) :
                          Set(r, [ run[r] EXCEPT
                            !.pc = IF parent # Undefined THEN "selectParent" ELSE "select",
                            !.idx = IF parent # Undefined THEN i ELSE i + 1,
                            !.stashAddressesCreation =
                               Merge(@, CreationEntry(stash, rows, first)) ])
                     /\ UNCHANGED sqlFailures
                  \/ /\ sqlFailures < MaxSqlFailures
                     /\ sqlFailures' = sqlFailures + 1
                     /\ Set(r, [ run[r] EXCEPT !.pc = "caught", !.error = "sql" ])
  /\ UNCHANGED << started, timers, urlValid, total, ranking, log, connections >>

\* ranking.js:393-407: the second awaited SELECT, of the creation block of
\* the identity parent of validators[idx], issued when identity.parent is set
SelectParent(r) ==
  /\ run[r].pc = "selectParent"
  /\ LET i == run[r].idx
         w == run[r].w
         parent == w.validators[i].identity.parent
         prows == SelectNewAccount(w.events, parent)
     IN \/ /\ \E pfirst \in FirstRows(prows) :
                Set(r, [ run[r] EXCEPT
                  !.pc = "select",
                  !.idx = i + 1,
                  !.stashAddressesCreation =
                     Merge(@, CreationEntry(parent, prows, pfirst)) ])
           /\ UNCHANGED sqlFailures
        \/ /\ sqlFailures < MaxSqlFailures
           /\ sqlFailures' = sqlFailures + 1
           /\ Set(r, [ run[r] EXCEPT !.pc = "caught", !.error = "sql" ])
  /\ UNCHANGED << started, timers, urlValid, total, ranking, log, connections >>

\* ranking.js:410-749, what the run does without an await between the last
\* SELECT and the first INSERT: validators.map(score).sort(...).map(rank),
\* the marking of the dominated validators (685-708) and the hiding of
\* cluster members (714-747). The callback throws a TypeError on a record
\* without the exposure it reads. With nothing to insert the run goes on to
\* log 'Cleaning old data' (903)
Score(r) ==
  /\ run[r].pc = "score"
  /\ LET w == run[r].w
     IN IF \E i \in DOMAIN w.validators : ScoreThrows(w.validators[i], w)
          THEN /\ Set(r, [ run[r] EXCEPT !.pc = "caught", !.error = "type" ])
               /\ UNCHANGED log
          ELSE \* each stage is bound to its value; SubSeq(s, 1, Len(s)) is s
               LET n == Len(w.validators)
                   after == IF n = 0 THEN NextStep("insert") ELSE NextStep("score")
                   performances ==
                     IF w \in Snapshots THEN SnapshotPerformances[w] ELSE performancesOf(w)
               IN /\ \E scored \in
                         { SubSeq([ i \in DOMAIN w.validators |->
                                      WithPerformance(
                                        ScoreValidator(w.validators[i], w,
                                                       run[r].stashAddressesCreation,
                                                       run[r].thousandValidators),
                                        performances[i]) ], 1, n) } :
                     \E sorted \in { SubSeq(RankWithPerformance(scored), 1, n) } :
                     \E ranked \in { SubSeq(FindDominated(sorted), 1, n) } :
                     \E entries \in
                         { SubSeq([ i \in DOMAIN ranked |->
                             [ rank |-> ranked[i].rank,
                               clusterName |-> ranked[i].validator.clusterName,
                               clusterMembers |-> ranked[i].validator.clusterMembers,
                               partOfCluster |-> ranked[i].validator.partOfCluster,
                               showClusterMember |->
                                 ranked[i].validator.showClusterMember ] ], 1, n) } :
                     \E validatorsToHide \in validatorsToHideOf(entries) :
                       Set(r, [ run[r] EXCEPT
                         !.pc = after,
                         !.idx = 1,
                         !.ranking =
                            [ i \in DOMAIN ranked |->
                                [ ranked[i] EXCEPT !.validator.showClusterMember =
                                    HideClusterMembers(entries, validatorsToHide)[i]
                                      .showClusterMember ] ] ])
                  /\ log' = IF after = "delete" THEN log \cup {"cleaning"} ELSE log
  /\ UNCHANGED << started, timers, urlValid, total, ranking, connections, sqlFailures >>

\* ranking.js:750-903: one awaited INSERT per ranked validator, each in a
\* try block; after the last one the run logs 'Cleaning old data' (903)
Insert(r) ==
  /\ run[r].pc = "insert"
  /\ LET i == run[r].idx
         after == IF i = Len(run[r].ranking) THEN NextStep("insert") ELSE "insert"
         issued == [ run[r].issued EXCEPT !.inserts = @ + 1 ]
         Logged(to) == IF to = "delete" THEN {"cleaning"} ELSE {}
     IN \/ /\ ranking' = ranking \cup
                { RankingRow(run[r].w.blockHeight, run[r].ranking[i], r) }
           /\ Set(r, [ run[r] EXCEPT !.pc = after,
                                     !.idx = IF after = "insert" THEN i + 1 ELSE 1,
                                     !.issued = issued ])
           /\ log' = log \cup Logged(after)
           /\ UNCHANGED sqlFailures
        \/ /\ sqlFailures < MaxSqlFailures
           /\ sqlFailures' = sqlFailures + 1
           /\ log' = log \cup {"insert"} \cup Logged(AfterFailedWrite(after))
           /\ Set(r, [ run[r] EXCEPT !.pc = AfterFailedWrite(after),
                                     !.idx = IF after = "insert" THEN i + 1 ELSE 1,
                                     !.issued = issued ])
           /\ UNCHANGED ranking
  /\ UNCHANGED << started, timers, urlValid, total, connections >>

\* ranking.js:904-909: the awaited DELETE, in a try block
Delete(r) ==
  /\ run[r].pc = "delete"
  /\ LET issued == [ run[r].issued EXCEPT !.deletes = @ + 1 ]
     IN \/ /\ ranking' = DeleteOld(ranking, run[r].w.blockHeight)
           /\ Set(r, [ run[r] EXCEPT !.pc = NextStep("delete"), !.issued = issued ])
           /\ UNCHANGED << log, sqlFailures >>
        \/ /\ sqlFailures < MaxSqlFailures
           /\ sqlFailures' = sqlFailures + 1
           /\ log' = log \cup {"delete"}
           /\ Set(r, [ run[r] EXCEPT !.pc = AfterFailedWrite(NextStep("delete")),
                                     !.issued = issued ])
           /\ UNCHANGED ranking
  /\ UNCHANGED << started, timers, urlValid, total, connections >>

\* ranking.js:910-915: api.disconnect().catch(log)
Disconnect(r) ==
  /\ run[r].pc = "disconnect"
  /\ \/ /\ connections' = connections - 1
        /\ UNCHANGED log
     \/ /\ log' = log \cup {"disconnect"}
        /\ UNCHANGED connections
  /\ Set(r, [ run[r] EXCEPT !.pc = NextStep("disconnect") ])
  /\ UNCHANGED << started, timers, urlValid, total, ranking, sqlFailures >>

\* ranking.js:916-918: the catch of the try block logs the error
Caught(r) ==
  /\ run[r].pc = "caught"
  /\ log' = log \cup {"general"}
  /\ Set(r, [ run[r] EXCEPT !.pc = "arm" ])
  /\ UNCHANGED << started, timers, urlValid, total, ranking, connections, sqlFailures >>

\* ranking.js:919-923: setTimeout(start, pollingTime), and start returns
Arm(r) ==
  /\ run[r].pc = "arm"
  /\ timers' = timers + 1
  /\ Set(r, [ NoRun EXCEPT !.pc = "returned" ])
  /\ UNCHANGED << started, urlValid, total, ranking, log, connections, sqlFailures >>

\* the timer fires: start(wsProviderUrl, pool, config, false)
TimerFires ==
  /\ timers > 0
  /\ started < MaxRuns
  /\ timers' = FireTimer(timers)
  /\ started' = started + 1
  /\ run' = [ run EXCEPT ![started + 1] = [ NoRun EXCEPT !.pc = "provider" ] ]
  /\ log' = {}
  /\ UNCHANGED << urlValid, total, ranking, connections, sqlFailures >>

Step(r) ==
  \/ Delay(r) \/ Provider(r) \/ Fetch(r) \/ Connect(r) \/ Rpc(r) \/ StakesStep(r)
  \/ TotalUpdate(r) \/ Select(r) \/ SelectParent(r) \/ Score(r) \/ Insert(r) \/ Delete(r)
  \/ Disconnect(r) \/ Caught(r) \/ Arm(r)

Next ==
  \/ \E r \in Runs : Step(r) /\ UNCHANGED << scoreVars, rankVars >>
  \/ TimerFires /\ UNCHANGED << scoreVars, rankVars >>

Spec == Init /\ [][Next]_vars

(***************************************************************************)
(* SpecScore: the callback of validators.map (ranking.js:411-663) applied  *)
(* to one validator of a snapshot drawn from bounded sets.                 *)
(***************************************************************************)
\* best block of the snapshots SpecScore scores
ScoreHeight == 4

ScoreIdentities ==
  { NoIdentity,
    Identity(<<"N">>, <<>>, Undefined, <<>>, <<>>),
    Identity(<<"N">>, <<>>, Undefined, <<>>, <<"FeePaid">>),
    Identity(<<"N">>, <<>>, Undefined, <<>>, <<"Reasonable">>),
    Identity(<<"N">>, <<>>, Undefined, Str("x"), <<"KnownGood">>),
    Identity(<<"1">>, <<"P">>, "P", Str("x"), <<"Reasonable">>) }

\* validatorPrefs.commission, in perbill
ScoreCommissions ==
  { 0, 3 * CommissionUnit, 7 * CommissionUnit, 20 * CommissionUnit, 100 * CommissionUnit }

\* block of the NewAccount event of the stash; NaN for no event
ScoreCreations == { NaN, 1, 2, 3 }

ScoreErasPerDay == { 1, ErasPerDay }

\* the eras of the history: those without points for the validator, then
\* those paid out, then those pending
EraKinds(inactive, paid, pending) ==
  [ i \in 1..(inactive + paid + pending) |->
      IF i <= inactive THEN "inactive"
      ELSE IF i <= inactive + paid THEN "paid" ELSE "pending" ]

ScoreEras ==
  { EraKinds(n[1], n[2], n[3]) :
      n \in { m \in (0..MaxEras) \X (0..MaxEras) \X (0..MaxEras) :
                m[1] + m[2] + m[3] <= MaxEras } }

ScoreParams ==
  [ active : BOOLEAN, identity : ScoreIdentities, commission : ScoreCommissions,
    nominators : {0, 1, 3}, eras : ScoreEras, council : BOOLEAN,
    proposer : BOOLEAN, slashed : BOOLEAN, creation : ScoreCreations,
    erasPerDay : ScoreErasPerDay ]

\* the snapshot in which validator "A" has the properties p, next to the
\* active validator ValC
ScoreWorld(p) ==
  LET others == [ k \in 1..p.nominators |-> [ who |-> "N1", value |-> k ] ]
      subject ==
        Validator("A", p.active, p.identity,
                  IF p.active THEN Exposure(5, others) ELSE NoExposure,
                  5, { i \in DOMAIN p.eras : p.eras[i] = "paid" }, p.commission)
      present(i) == IF p.eras[i] = "inactive" THEN {"C"} ELSE {"A", "C"}
  IN [ EmptyWorld EXCEPT
         !.blockHeight = ScoreHeight,
         !.currentEra = Len(p.eras) + 1,
         !.validators = IF p.active THEN <<subject, ValC>> ELSE <<ValC, subject>>,
         !.erasPoints =
            [ i \in DOMAIN p.eras |->
                [ era |-> i, eraPoints |-> 15,
                  validators |-> [ a \in present(i) |-> IF a = "A" THEN 10 ELSE 5 ] ] ],
         !.erasPreferences =
            [ i \in DOMAIN p.eras |->
                [ era |-> i, validators |-> [ a \in present(i) |-> p.commission ] ] ],
         !.erasSlashes =
            << [ era |-> 1, validators |-> IF p.slashed THEN {"A"} ELSE {} ] >>,
         !.erasExposure =
            [ i \in DOMAIN p.eras |->
                [ era |-> i, validators |-> [ a \in present(i) |-> [ total |-> 9 ] ] ] ],
         !.councilVotes = IF p.council THEN {"A"} ELSE {},
         !.proposals =
            IF p.proposer THEN << [ proposer |-> "A", seconds |-> {} ] >> ELSE <<>>,
         !.nominations =
            [ k \in 1..p.nominators |-> [ nominator |-> "N1", targets |-> {"A"} ] ],
         !.config = [ erasPerDay |-> p.erasPerDay ] ]

\* stashAddressesCreation after the SELECTs of ranking.js:376-408
ScoreCreation(p) ==
  Merge(IF p.creation = NaN THEN EmptyMap ELSE [ a \in {"A"} |-> p.creation ],
        IF p.identity.parent # Undefined THEN [ a \in {"P"} |-> 2 ] ELSE EmptyMap)

ScoreSubject(w) == CHOOSE v \in { w.validators[i] : i \in DOMAIN w.validators } : v.stashId = "A"

InitScore ==
  /\ \E p \in ScoreParams :
       scoreIn = [ w |-> ScoreWorld(p), stashAddressesCreation |-> ScoreCreation(p) ]
  /\ scoreOut = Undefined
  /\ phase = "in"
  /\ run = [ r \in Runs |-> NoRun ]
  /\ started = 0 /\ timers = 0 /\ urlValid = TRUE
  /\ total = EmptyMap /\ ranking = {} /\ log = {}
  /\ connections = 0 /\ sqlFailures = 0
  /\ rankIn = <<>> /\ rankOut = <<>>

\* the callback returns the scored validator
ScoreOne ==
  /\ phase = "in"
  /\ phase' = "out"
  /\ scoreOut' = ScoreValidator(ScoreSubject(scoreIn.w), scoreIn.w,
                                scoreIn.stashAddressesCreation, <<>>)
  /\ UNCHANGED << pipelineVars, scoreIn, rankIn, rankOut >>

NextScore == ScoreOne

SpecScore == InitScore /\ [][NextScore]_vars

(***************************************************************************)
(* SpecRank: the sort and the rank assignment of ranking.js:664-675        *)
(* applied to lists of scored validators drawn from bounded sets.          *)
(***************************************************************************)
\* a scored validator, as far as the sort and the rank read it
Scored(position, totalRating) == [ stashAddress |-> position, totalRating |-> totalRating ]

RankInputs ==
  UNION { { [ i \in 1..n |-> Scored(i, f[i]) ] : f \in [ 1..n -> 0..MaxRankRating ] }
          : n \in 0..MaxRankLen }

InitRank ==
  /\ rankIn \in RankInputs
  /\ rankOut = <<>>
  /\ phase = "in"
  /\ run = [ r \in Runs |-> NoRun ]
  /\ started = 0 /\ timers = 0 /\ urlValid = TRUE
  /\ total = EmptyMap /\ ranking = {} /\ log = {}
  /\ connections = 0 /\ sqlFailures = 0
  /\ scoreIn = Undefined /\ scoreOut = Undefined

RankAll ==
  /\ phase = "in"
  /\ phase' = "out"
  /\ rankOut' = SortAndRank(rankIn)
  /\ UNCHANGED << pipelineVars, scoreIn, scoreOut, rankIn >>

NextRank == RankAll

SpecRank == InitRank /\ [][NextRank]_vars

(***************************************************************************)
(* Properties of the scoring, under SpecScore.                             *)
(***************************************************************************)
\* C9: every scored validator's totalRating is the sum of its ten component
\* ratings, and each component lies in its range: active, subAccounts,
\* nominators, eraPoints and slash in {0, 2}, governance in {0, 2, 3},
\* addressCreation, identity, commission and payout in {0, 1, 2, 3}.
C9_TotalRatingIsSumOfBoundedComponents ==
  phase = "out" =>
    /\ scoreOut.totalRating =
         scoreOut.activeRating + scoreOut.addressCreationRating
           + scoreOut.identityRating + scoreOut.subAccountsRating
           + scoreOut.nominatorsRating + scoreOut.commissionRating
           + scoreOut.eraPointsRating + scoreOut.slashRating
           + scoreOut.governanceRating + scoreOut.payoutRating
    /\ scoreOut.activeRating \in {0, 2}
    /\ scoreOut.subAccountsRating \in {0, 2}
    /\ scoreOut.nominatorsRating \in {0, 2}
    /\ scoreOut.eraPointsRating \in {0, 2}
    /\ scoreOut.slashRating \in {0, 2}
    /\ scoreOut.governanceRating \in {0, 2, 3}
    /\ scoreOut.addressCreationRating \in 0..3
    /\ scoreOut.identityRating \in 0..3
    /\ scoreOut.commissionRating \in 0..3
    /\ scoreOut.payoutRating \in 0..3

\* an active validator scored with a sub-identity, council backing only,
\* more than erasPerDay pending eras, a commission above 10% and a slash
C9_Witness ==
  /\ phase = "out"
  /\ scoreOut.active
  /\ scoreOut.subAccountsRating = 2
  /\ scoreOut.governanceRating = 2
  /\ scoreOut.payoutRating = 2
  /\ scoreOut.commissionRating = 1
  /\ scoreOut.eraPointsRating = 2
  /\ scoreOut.addressCreationRating = 2
  /\ scoreOut.identityRating = 3
  /\ scoreOut.nominatorsRating = 2
  /\ scoreOut.slashRating = 0
  /\ scoreOut.totalRating = 18

(***************************************************************************)
(* Properties of the ranking, under SpecRank.                              *)
(***************************************************************************)
\* the position in the input of the validator at rank i
InputPosition(i) == rankOut[i].validator.stashAddress

\* C10: the ranks assigned are exactly 1..N, validators are ordered by
\* totalRating descending, and validators with equal totalRating keep the
\* order they had in the input.
C10_RanksDescendingTiesKeepInputOrder ==
  phase = "out" =>
    /\ Len(rankOut) = Len(rankIn)
    /\ \A i \in DOMAIN rankOut : rankOut[i].rank = i
    /\ { InputPosition(i) : i \in DOMAIN rankOut } = DOMAIN rankIn
    /\ \A i \in DOMAIN rankOut : rankOut[i].validator = rankIn[InputPosition(i)]
    /\ \A i, j \in DOMAIN rankOut :
         i < j =>
           /\ rankOut[i].validator.totalRating >= rankOut[j].validator.totalRating
           /\ rankOut[i].validator.totalRating = rankOut[j].validator.totalRating
                => InputPosition(i) < InputPosition(j)

(***************************************************************************)
(* Properties of the scheduler and of the pipeline run, under Spec.        *)
(***************************************************************************)
Returned == { r \in Runs : run[r].pc = "returned" }
Idle == \A r \in Runs : ~Executing(r)
RowsOf(r) == { row \in ranking : row.timestamp = r }
Heights == { row.block_height : row \in ranking }
Stashes(w) == { w.validators[i].stashId : i \in DOMAIN w.validators }
\* the run has left the try block without entering its catch
Completed(r) == run[r].pc = "arm" /\ run[r].error = "none"

\* C1: whatever happens inside an invocation of start, it returns without
\* propagating an error and exactly one next invocation is scheduled: no
\* invocation ends by throwing, and the timers armed so far (pending or
\* fired) are as many as the invocations that have returned.
C1_StartReturnsAndArmsOneTimer ==
  /\ \A r \in Runs : run[r].pc # "threw"
  /\ timers + (started - 1) = Cardinality(Returned)

\* C2: at any time at most one run is executing, and no timer is armed
\* while a run executes.
C2_AtMostOneRunExecuting ==
  Cardinality({ r \in Runs : Executing(r) }) + timers <= 1

\* the second run writes its rows after the first has returned
C2_Witness ==
  /\ started = 2
  /\ run[1].pc = "returned"
  /\ run[2].pc = "insert"
  /\ run[2].idx > 1
  /\ timers = 0

\* C3: after any run that completes without reaching the general error
\* handler, whatever the table held before, the ranking table holds exactly
\* one row for each validator of the run, every row carries the run's
\* block_height and no row of another block_height remains.
C3_ExactlyTheRowsOfTheRun ==
  \A r \in Runs :
    Completed(r) =>
      /\ \A row \in ranking : row.block_height = run[r].w.blockHeight
      /\ \A a \in Stashes(run[r].w) :
           Cardinality({ row \in ranking : row.stash_address = a }) = 1

\* the first run wrote its rows at height 1 and returned; the second, at
\* height 2, has left the try block without entering its catch and each of
\* its INSERTs succeeded, but its DELETE failed (ranking.js:907-909 logs the
\* error and goes on): the rows of height 1 are still there, next to one row
\* of height 2 for each validator of the second run
FailedDeleteKeepsOldRows ==
  /\ started = 2
  /\ run[1].pc = "returned"
  /\ Completed(2)
  /\ "insert" \notin log
  /\ "delete" \in log
  /\ run[2].w.blockHeight = 2
  /\ RowsOf(1) # {}
  /\ RowsOf(1) = { row \in ranking : row.block_height = 1 }
  /\ RowsOf(2) = { row \in ranking : row.block_height = 2 }
  /\ Cardinality(RowsOf(2)) = Len(run[2].w.validators)

\* C4: at every point between two runs, whatever succeeded or failed in the
\* runs so far, all rows of the ranking table share a single block_height.
C4_SingleGenerationBetweenRuns == Idle => Cardinality(Heights) <= 1

\* between two runs, after the second run has returned, the table holds
\* rows of two block heights: the DELETE of the second run failed after its
\* INSERTs were committed
TwoGenerationsBetweenRuns ==
  /\ Idle
  /\ started = 2
  /\ run[2].pc = "returned"
  /\ run[2].error = "none"
  /\ "delete" \in log
  /\ Heights = {1, 2}

\* C5: if a chain RPC call of a run fails, the run has issued no UPDATE on
\* total, no INSERT and no DELETE on ranking and issues none afterwards, the
\* general handler logs the error, and setTimeout arms the next run.
C5_RpcFailureAbortsWithoutWrites ==
  [][\A r \in Runs :
       run[r].error = "rpc" =>
         /\ run[r].issued = NoIssue
         /\ total' = total /\ ranking' = ranking
         /\ run[r].pc \in {"caught", "arm"}
         /\ run[r].pc = "caught" => ("general" \in log' /\ run'[r].pc = "arm")
         /\ run[r].pc = "arm" =>
              /\ "general" \in log
              /\ timers' = timers + 1
              /\ run'[r].pc = "returned"]_vars

\* a query that follows the snapshot has failed, the error is logged and
\* the run is about to arm the timer
C5_Witness ==
  \E r \in Runs :
    /\ run[r].error = "rpc"
    /\ run[r].pc = "arm"
    /\ run[r].w # EmptyWorld
    /\ "general" \in log

\* the statements that write, each named as its failure is in the log
WriteSteps == {"total", "insert", "delete"}
AllIssued(r) ==
  [ updates |-> Len(TotalNames), inserts |-> Len(run[r].w.validators), deletes |-> 1 ]

\* C6: a failed UPDATE, INSERT or DELETE never aborts the run: the failure
\* is logged, the tables are left as they were, the run goes on with the
\* next statement, and a run that leaves the try block without entering its
\* catch has issued all five UPDATEs, one INSERT per validator and the DELETE.
C6_FailedWriteNeverAborts ==
  /\ [](\A r \in Runs : Completed(r) => run[r].issued = AllIssued(r))
  /\ [][\A r \in Runs :
          (run[r].pc \in WriteSteps /\ sqlFailures' # sqlFailures) =>
            /\ run'[r].pc \in {run[r].pc, NextStep(run[r].pc)}
            /\ run'[r].error = "none"
            /\ run[r].pc \in log'
            /\ total' = total /\ ranking' = ranking
            /\ run'[r].issued # run[r].issued]_vars

\* an INSERT has failed and the run has inserted the other rows, purged the
\* old generations and left the try block
C6_Witness ==
  \E r \in Runs :
    /\ Completed(r)
    /\ "insert" \in log
    /\ "cleaning" \in log
    /\ run[r].issued = AllIssued(r)
    /\ Cardinality(RowsOf(r)) = Len(run[r].w.validators) - 1

\* the validators of a snapshot that violate a schema invariant
Violating(w) == { i \in DOMAIN w.validators : ScoreThrows(w.validators[i], w) }

\* C7: when a validator record violates a schema invariant the run is not
\* aborted, and all other validators are scored, ranked and written to the
\* ranking table (in a run with no failed query and no failed INSERT).
C7_ViolatingValidatorIsSkipped ==
  \A r \in Runs :
    (/\ run[r].pc = "arm"
     /\ Violating(run[r].w) # {}
     /\ run[r].error \notin {"rpc", "sql"}
     /\ "insert" \notin log) =>
      /\ run[r].error = "none"
      /\ \A i \in DOMAIN run[r].w.validators \ Violating(run[r].w) :
           \E row \in RowsOf(r) :
             /\ row.stash_address = run[r].w.validators[i].stashId
             /\ row.block_height = run[r].w.blockHeight

\* C8: when the fetch of the thousand-validator list fails it is logged and
\* yields an empty list, the failure does not take the run to the general
\* handler, and every validator the run ranks and every row it writes has
\* includedThousandValidators = false.
C8_FetchFailureYieldsEmptyList ==
  \A r \in Runs :
    run[r].fetchFailed =>
      /\ "thousand" \in log
      /\ run[r].thousandValidators = <<>>
      /\ run[r].pc = "caught" => run[r].error # "none"
      /\ \A i \in DOMAIN run[r].ranking :
           ~run[r].ranking[i].validator.includedThousandValidators
      /\ \A row \in RowsOf(r) : ~row.included_thousand_validators

\* a run whose fetch failed has completed and written a row for each of its
\* validators, validator A of the candidates' list among them
C8_Witness ==
  \E r \in Runs :
    /\ run[r].fetchFailed
    /\ Completed(r)
    /\ Cardinality(RowsOf(r)) = Len(run[r].w.validators)
    /\ \E row \in RowsOf(r) : row.stash_address = "A"

(***************************************************************************)
(* SpecCommission: getCommissionRating (ranking.js:108-127) applied to a   *)
(* commission and a commission history drawn from bounded sets.            *)
(***************************************************************************)
\* the pipeline at rest, for the specifications of one function
NoPipeline ==
  /\ run = [ r \in Runs |-> NoRun ]
  /\ started = 0 /\ timers = 0 /\ urlValid = TRUE
  /\ total = EmptyMap /\ ranking = {} /\ log = {}
  /\ connections = 0 /\ sqlFailures = 0
  /\ rankIn = <<>> /\ rankOut = <<>>

\* commissions in parts per billion: 0, 0.5, 4.5, 5, 7, 10, 10.5, 50, 99.5 and
\* 100 percent
Commissions ==
  { 0, 5000000, 45000000, 5 * CommissionUnit, 7 * CommissionUnit, 10 * CommissionUnit,
    105000000, 50 * CommissionUnit, 995000000, 100 * CommissionUnit }

\* the commission of an era of the history; UndefinedNumber is the null of
\* an era without preferences for the validator
HistoryCommissions == { UndefinedNumber, 5 * CommissionUnit, 12 * CommissionUnit }

MaxHistory == 3

CommissionHistories ==
  UNION { { [ i \in 1..n |-> [ era |-> i, commission |-> f[i] ] ] :
            f \in [ 1..n -> HistoryCommissions ] } : n \in 0..MaxHistory }

InitCommission ==
  /\ scoreIn \in [ commission : Commissions, commissionHistory : CommissionHistories ]
  /\ scoreOut = Undefined
  /\ phase = "in"
  /\ NoPipeline

RateCommission ==
  /\ phase = "in"
  /\ phase' = "out"
  /\ scoreOut' = [ commissionRating |->
                     getCommissionRating(scoreIn.commission, scoreIn.commissionHistory) ]
  /\ UNCHANGED << pipelineVars, scoreIn, rankIn, rankOut >>

NextCommission == RateCommission

SpecCommission == InitCommission /\ [][NextCommission]_vars

\* the number a history entry's commission stands for (null counts as 0)
HistoryValue(entry) ==
  IF entry.commission = UndefinedNumber THEN 0 ELSE entry.commission

InBand == scoreIn.commission >= 5 * CommissionUnit /\ scoreIn.commission <= 10 * CommissionUnit

TrendingDown ==
  /\ Len(scoreIn.commissionHistory) > 1
  /\ HistoryValue(scoreIn.commissionHistory[1])
       > HistoryValue(scoreIn.commissionHistory[Len(scoreIn.commissionHistory)])

\* C11: for a commission in the band 5 <= commission <= 10 the rating is 3
\* when the history has more than one entry and the commission of its oldest
\* entry is numerically greater than that of its newest, and 2 otherwise.
C11_BandRatingFollowsTrend ==
  (phase = "out" /\ InBand) =>
    scoreOut.commissionRating = IF TrendingDown THEN 3 ELSE 2

\* C12: for every commission and every history the rating is 0 when the
\* commission is exactly 0 or exactly 100, 1 when 10 < commission < 100, and
\* 3 when 0 < commission < 5.
C12_RatingOutsideBand ==
  phase = "out" =>
    /\ scoreIn.commission \in {0, 100 * CommissionUnit} => scoreOut.commissionRating = 0
    /\ (scoreIn.commission > 10 * CommissionUnit /\ scoreIn.commission < 100 * CommissionUnit)
         => scoreOut.commissionRating = 1
    /\ (scoreIn.commission > 0 /\ scoreIn.commission < 5 * CommissionUnit)
         => scoreOut.commissionRating = 3

\* a commission of 4.5 percent rated 3 against a history of three eras
C12_Witness ==
  /\ phase = "out"
  /\ scoreIn.commission = 45000000
  /\ Len(scoreIn.commissionHistory) = MaxHistory
  /\ scoreOut.commissionRating = 3

(***************************************************************************)
(* SpecPerformance: the relative performance and the Pareto dominance of   *)
(* ranking.js:598-604 and 664-708, applied to lists of scored validators   *)
(* drawn from bounded sets.  A performance is a sum of                     *)
(* points * (1 - commission / 100) / stake over the eras (563-564, 577),   *)
(* so it is never negative; the performances are the doubles               *)
(* 0..MaxPerformance.  A relative performance is the number toFixed(6)     *)
(* prints, in millionths, or NaN.                                          *)
(***************************************************************************)
MaxPerfLen == 3
MaxPerformance == 2

PerformanceInputs ==
  UNION { [ 1..n -> [ performance : { Float64("int", k, 0) : k \in 0..MaxPerformance },
                      selfStake : 0..1, activeEras : 0..1, totalRating : 0..1 ] ]
          : n \in 0..MaxPerfLen }

InitPerformance ==
  /\ scoreIn \in PerformanceInputs
  /\ scoreOut = Undefined
  /\ phase = "in"
  /\ NoPipeline

RankAndDominate ==
  /\ phase = "in"
  /\ phase' = "out"
  /\ scoreOut' = FindDominated(RankWithPerformance(scoreIn))
  /\ UNCHANGED << pipelineVars, scoreIn, rankIn, rankOut >>

NextPerformance == RankAndDominate

SpecPerformance == InitPerformance /\ [][NextPerformance]_vars

\* the performances of the run
Performances == { scoreIn[i].performance : i \in DOMAIN scoreIn }
IsSmallest(x) == \A y \in Performances : ~Float64("less", y, x)
IsLargest(x) == \A y \in Performances : ~Float64("less", x, y)

\* C13: every relativePerformance is a number in [0, 1]; it is 0 for the
\* validator with the smallest performance and 1 for the validator with the
\* largest; when all validators have equal performance it is 0 for every
\* validator, never NaN.
C13_RelativePerformanceNormalised ==
  phase = "out" =>
    \A i \in DOMAIN scoreOut :
      /\ scoreOut[i].relativePerformance \in 0..Millionth
      /\ IF Cardinality(Performances) = 1
           THEN scoreOut[i].relativePerformance = 0
           ELSE /\ IsSmallest(scoreOut[i].validator.performance)
                     => scoreOut[i].relativePerformance = 0
                /\ IsLargest(scoreOut[i].validator.performance)
                     => scoreOut[i].relativePerformance = Millionth

\* C15: a validator is marked dominated if and only if another entry of the
\* ranking is at least as good in relativePerformance, selfStake, activeEras
\* and totalRating; two entries identical in the four are both dominated.
C15_DominatedIffWeaklyDominated ==
  phase = "out" =>
    \A i \in DOMAIN scoreOut :
      scoreOut[i].dominated <=>
        \E j \in DOMAIN scoreOut :
          /\ j # i
          /\ scoreOut[j].relativePerformance >= scoreOut[i].relativePerformance
          /\ scoreOut[j].validator.selfStake >= scoreOut[i].validator.selfStake
          /\ scoreOut[j].validator.activeEras >= scoreOut[i].validator.activeEras
          /\ scoreOut[j].validator.totalRating >= scoreOut[i].validator.totalRating

(***************************************************************************)
(* SpecCluster: the cluster of each validator (ranking.js:141-174,         *)
(* 457-474) and the random hiding of cluster members (176-180, 712-747),   *)
(* applied to rankings whose identities are drawn from a bounded set.      *)
(***************************************************************************)
MaxClusterLen == 6

\* identities without parent whose display is '', AB1, AB2, ABCDEF1 and
\* ABCDEFG, and the sub-identity x of the parent AB
ClusterIdentities ==
  { NoIdentity,
    Identity(<<"A", "B", "1">>, <<>>, Undefined, <<>>, <<>>),
    Identity(<<"A", "B", "2">>, <<>>, Undefined, <<>>, <<>>),
    Identity(<<"A", "B", "C", "D", "E", "F", "1">>, <<>>, Undefined, <<>>, <<>>),
    Identity(<<"A", "B", "C", "D", "E", "F", "G">>, <<>>, Undefined, <<>>, <<>>),
    Identity(<<"x">>, <<"A", "B">>, "P", <<>>, <<>>) }

\* ranking.js:457-474 and 665-675, for the validators in the order of their
\* rank: the fields of a ranked validator the hiding reads and writes
ClusterEntries(identities) ==
  LET validators == [ i \in DOMAIN identities |-> [ identity |-> identities[i] ] ]
  IN [ i \in DOMAIN identities |->
         LET cluster == getClusterInfo(parseIdentity(identities[i]).hasSubIdentity,
                                       validators, identities[i])
         IN [ rank |-> i,
              clusterName |-> cluster.clusterName,
              clusterMembers |-> cluster.clusterMembers,
              partOfCluster |-> cluster.clusterMembers > 1,
              showClusterMember |-> TRUE ] ]

ClusterInputs == UNION { [ 1..n -> ClusterIdentities ] : n \in 0..MaxClusterLen }

InitCluster ==
  /\ scoreIn \in ClusterInputs
  /\ scoreOut = Undefined
  /\ phase = "in"
  /\ NoPipeline

HideClusters ==
  /\ phase = "in"
  /\ phase' = "out"
  /\ \E validatorsToHide \in validatorsToHideOf(ClusterEntries(scoreIn)) :
       scoreOut' = HideClusterMembers(ClusterEntries(scoreIn), validatorsToHide)
  /\ UNCHANGED << pipelineVars, scoreIn, rankIn, rankOut >>

NextCluster == HideClusters

SpecCluster == InitCluster /\ [][NextCluster]_vars

\* the ranks that carry the cluster name C after the hiding
Carrying(C) == { i \in DOMAIN scoreOut : scoreOut[i].clusterName = C }
ClusterNames == { scoreOut[i].clusterName : i \in DOMAIN scoreOut } \ { <<>> }

\* C14: after cluster hiding, for every cluster name C whose members all
\* carry clusterMembers = k, with k at least 2, the number of validators
\* named C with showClusterMember = false is exactly k - show(k), where
\* show(k) is 2 for k = 2, floor(0.8k) for 3..10, floor(0.6k) for 11..20,
\* floor(0.4k) for 21..50 and floor(0.2k) above 50, for every random choice.
C14_HiddenCountPerCluster ==
  phase = "out" =>
    \A C \in ClusterNames : \A k \in 2..MaxClusterLen :
      (\A i \in Carrying(C) : scoreOut[i].clusterMembers = k) =>
        Cardinality({ i \in Carrying(C) : ~scoreOut[i].showClusterMember })
          = k - (IF k = 2 THEN 2
                 ELSE IF k <= 10 THEN (8 * k) \div 10
                 ELSE IF k <= 20 THEN (6 * k) \div 10
                 ELSE IF k <= 50 THEN (4 * k) \div 10
                 ELSE (2 * k) \div 10)

\* C18: a validator whose clusterMembers is 0 or 1 is never selected for
\* hiding: its showClusterMember is true for every set of validators and
\* every random choice.
C18_SingletonsNeverHidden ==
  phase = "out" =>
    \A i \in DOMAIN scoreOut :
      scoreOut[i].clusterMembers \in {0, 1} => scoreOut[i].showClusterMember

\* C19: all validators that carry the same non-empty clusterName carry the
\* same clusterMembers value, and that value is the number of validators
\* carrying that clusterName.
C19_ClusterMembersCountsTheName ==
  phase = "out" =>
    \A i \in DOMAIN scoreOut :
      scoreOut[i].clusterName # <<>> =>
        scoreOut[i].clusterMembers = Cardinality(Carrying(scoreOut[i].clusterName))

(***************************************************************************)
(* The dashboard metric minimum_stake, under Spec.                         *)
(***************************************************************************)
\* the nominator stakes of the active validators of a snapshot
NominatorStakes(w) ==
  UNION { { w.validators[i].exposure.others[k].value :
              k \in DOMAIN w.validators[i].exposure.others }
          : i \in { j \in DOMAIN w.validators :
                      w.validators[j].active /\ w.validators[j].exposure # NoExposure } }

\* C16: the value written to the total row minimum_stake is the smallest
\* nominator stake over all entries of exposure.others of all active
\* validators.
C16_MinimumStakeIsSmallest ==
  \A r \in Runs :
    (/\ run[r].issued.updates = Len(TotalNames)
     /\ "total" \notin log
     /\ NominatorStakes(run[r].w) # {}) =>
      /\ total["minimum_stake"] \in NominatorStakes(run[r].w)
      /\ \A stake \in NominatorStakes(run[r].w) : total["minimum_stake"] <= stake

(***************************************************************************)
(* SpecCreation: the creation block of a stash and of its identity parent  *)
(* (ranking.js:376-408, 421-426), for NewAccount events drawn from a       *)
(* bounded set and every order in which a query can return its rows. The   *)
(* two SELECTs are awaited one after the other, and the table event can    *)
(* have gained rows between the first answer and the second.               *)
(***************************************************************************)
MaxBlock == 3

\* NewAccount events of the stash A and of its identity parent P
CreationEvents ==
  { [ block_number |-> b, data |-> {a} ] : b \in 1..MaxBlock, a \in {"A", "P"} }

\* events is the table the first SELECT reads, eventsLater the table the
\* second SELECT reads
InitCreation ==
  /\ scoreIn \in { in \in [ events : SUBSET CreationEvents,
                            eventsLater : SUBSET CreationEvents ] :
                     in.events \subseteq in.eventsLater }
  /\ scoreOut = [ stashAddressesCreation |-> EmptyMap,
                  stashCreatedAtBlock |-> UndefinedNumber,
                  stashParentCreatedAtBlock |-> UndefinedNumber ]
  /\ phase = "in"
  /\ NoPipeline

\* ranking.js:380-392 for the validator A: the awaited SELECT of the stash
SelectStashCreation ==
  /\ phase = "in"
  /\ phase' = "stash"
  /\ LET rows == SelectNewAccount(scoreIn.events, "A")
     IN \E first \in FirstRows(rows) :
          scoreOut' = [ scoreOut EXCEPT !.stashAddressesCreation =
                          Merge(@, CreationEntry("A", rows, first)) ]
  /\ UNCHANGED << pipelineVars, scoreIn, rankIn, rankOut >>

\* ranking.js:393-407 for the identity parent P of A: the second awaited
\* SELECT
SelectParentCreation ==
  /\ phase = "stash"
  /\ phase' = "parent"
  /\ LET prows == SelectNewAccount(scoreIn.eventsLater, "P")
     IN \E pfirst \in FirstRows(prows) :
          scoreOut' = [ scoreOut EXCEPT !.stashAddressesCreation =
                          Merge(@, CreationEntry("P", prows, pfirst)) ]
  /\ UNCHANGED << pipelineVars, scoreIn, rankIn, rankOut >>

\* ranking.js:421-426: the blocks the scoring of A reads
ReadCreation ==
  /\ phase = "parent"
  /\ phase' = "out"
  /\ scoreOut' =
       [ scoreOut EXCEPT
           !.stashCreatedAtBlock =
              ParseInt(CreationOf(scoreOut.stashAddressesCreation, "A")),
           !.stashParentCreatedAtBlock =
              ParseInt(CreationOf(scoreOut.stashAddressesCreation, "P")) ]
  /\ UNCHANGED << pipelineVars, scoreIn, rankIn, rankOut >>

NextCreation == SelectStashCreation \/ SelectParentCreation \/ ReadCreation

SpecCreation == InitCreation /\ [][NextCreation]_vars

\* the blocks of the NewAccount events of a table that reference an address
BlocksOf(events, address) ==
  { e.block_number : e \in { x \in events : address \in x.data } }

SmallestBlock(events, address) ==
  IF BlocksOf(events, address) = {} THEN 0
  ELSE CHOOSE b \in BlocksOf(events, address) :
         \A c \in BlocksOf(events, address) : b <= c

\* C17: for the stash address and for the identity-parent address, the
\* creation block used for scoring is the smallest block_number among the
\* NewAccount events that reference the address in the table its SELECT
\* read, whatever order the query returns its rows in, and 0 when there is
\* no such event.
C17_CreationBlockIsSmallest ==
  phase = "out" =>
    /\ scoreOut.stashCreatedAtBlock = SmallestBlock(scoreIn.events, "A")
    /\ scoreOut.stashParentCreatedAtBlock = SmallestBlock(scoreIn.eventsLater, "P")

\* the part of C17 about an address without a NewAccount event
NoEventMeansGenesis ==
  phase = "out" =>
    /\ BlocksOf(scoreIn.events, "A") = {} => scoreOut.stashCreatedAtBlock = 0
    /\ BlocksOf(scoreIn.eventsLater, "P") = {} => scoreOut.stashParentCreatedAtBlock = 0

\* a state in which the table gained rows between the two SELECTs: the
\* stash is taken for a genesis account although an event of it is in the
\* table the parent's block was read from
TableGrewBetweenSelects ==
  /\ phase = "out"
  /\ scoreOut.stashCreatedAtBlock = 0
  /\ scoreOut.stashParentCreatedAtBlock = 3
  /\ BlocksOf(scoreIn.eventsLater, "A") = {2}

(***************************************************************************)
(* An aborted run and the tables, under Spec.                              *)
(***************************************************************************)
\* C20: a run that aborts into the general error handler leaves the total
\* table and the ranking table as they were before the run started; stated
\* for the first run of the process, which starts on the tables of Init.
C20_AbortLeavesTablesUntouched ==
  (started = 1 /\ run[1].pc = "caught") =>
    /\ total = [ n \in { TotalNames[i] : i \in DOMAIN TotalNames } |-> 0 ]
    /\ ranking = {}

\* the part of C20 that concerns a failed RPC or a failed read of the
\* exposure: such a run has written nothing
AbortBeforeWritesLeavesTablesUntouched ==
  (started = 1 /\ run[1].pc = "caught" /\ run[1].issued = NoIssue) =>
    /\ total = [ n \in { TotalNames[i] : i \in DOMAIN TotalNames } |-> 0 ]
    /\ ranking = {}

(***************************************************************************)
(* The chain API connection over a sequence of runs, under Spec.           *)
(***************************************************************************)
\* C21: every run that opens a chain API connection disconnects it before
\* the next run is scheduled, on the success path and on every error path,
\* so that at most one API connection is open at any time.
C21_ConnectionClosedBeforeNextRun ==
  /\ connections <= 1
  /\ \A r \in Runs : run[r].pc = "arm" => connections = 0

\* the part of C21 that concerns the success path: a run that reaches the
\* end of the try block and whose disconnect is not rejected has closed the
\* connection it opened
SuccessPathDisconnects ==
  [][\A r \in Runs :
       (run[r].pc = "disconnect" /\ run'[r].pc = "arm" /\ log' = log) =>
         connections' = connections - 1]_vars

====
